---- MODULE Spec2Model ----
(***************************************************************************)
(* A model of the supervisor process of src/kernel/seed/seed.py: the       *)
(* mailbox server (health + inbox), the tool-calling loop, the subagent    *)
(* supervisor and the life loop with its persisted galla (epoch) counter.  *)
(*                                                                         *)
(* The process has two threads: the main thread, which runs live(), and    *)
(* the server thread of start_server(), which handles one HTTP request at  *)
(* a time (http.server.HTTPServer is not a threading server).  The main    *)
(* thread's position is the variable stack: a sequence of labels, the      *)
(* current one first, the callers' continuations after it.                 *)
(***************************************************************************)
EXTENDS Integers, Sequences, FiniteSets, TLC

VARIABLES
    \* ---- mailbox: seed.py lines 41-42, 70-129
    inbox,          \* _inbox: the list of {message, source} entries
    inbox_lock,     \* _inbox_lock: its holder, or Free
    net,            \* HTTP requests sent by clients and not yet picked up
    srv_pc,         \* the server thread's position in SeedHandler
    srv_req,        \* the request the server thread is handling
    resp,           \* request id -> the status code answered (0: none yet)
    messages,       \* drain_inbox's local list
    drained,        \* history: the lists returned by drain_inbox, in order
    \* ---- health: seed.py lines 38-46, 71-90
    now,            \* the wall clock, time.time(), in seconds
    ticks,          \* history: how many times the clock has advanced
    heartbeat,      \* _heartbeat
    alive,          \* alive
    phase,          \* _phase
    galla,          \* galla: the epoch counter in memory
    srv_health,     \* do_GET's locals status and code
    bodies,         \* request id -> the JSON body answered to GET /health
    \* ---- subagent supervisor: seed.py lines 48-62, 447-528
    agents,         \* _agents: the AgentInfo records, in insertion order
    workers,        \* the worker processes started so far: worker -> state
    tc,             \* the tool call being executed: id, name, arguments
    result,         \* what the tool executor returned for tc
    summary,        \* what the last check_agents() returned
    \* ---- tool-calling loop: seed.py lines 144-217, 304-323, 549-566, 753-805
    files,          \* the files of the brain directory: path -> content
    ta_messages,    \* think_and_act's messages: the conversation
    ta_tools,       \* think_and_act's tools: the catalog sent to the service
    actions,        \* think_and_act's actions
    ta_i,           \* think_and_act's loop index i
    response,       \* think_and_act's response
    ta_k,           \* the position in tool_calls of the call being executed
    ta_ret,         \* how the last think_and_act ended and what it returned
    service,        \* how the reasoning service answers this invocation: the
                    \* tool calls it asks for, for how many rounds, and then what
    world,          \* what the file system, the shell and the kernel do to
                    \* this invocation's write, execute and restart calls
    think_calls,    \* history: think() calls made by this invocation
    subprocesses,   \* history: the shell commands tool_execute has started
    latency,        \* the seconds the reasoning service takes over a think call
    \* ---- life loop and epoch persistence: seed.py lines 729-746, 1011-1151
    saved_galla,    \* live's saved_galla: what load_galla returned at boot
    prompt,         \* live's prompt
    plan,           \* live's plan
    plan_failed,    \* live's plan_failed
    posted,         \* the plan last sent to the kernel's timeline by post_galla
    epochs,         \* history: the epochs begun so far, by any process
    boots,          \* history: the processes started so far
    persisted,      \* history: the last value a save_galla call wrote in full
    intact,         \* history: .galla still holds that value
    completed,      \* history: some epoch reached save_galla
    crashed,        \* history: the body of the current epoch raised an exception
    polls,          \* history: the check_agents() calls the life loop has made
    kernel_up,      \* whether the kernel answers the best-effort requests
    \* ---- one subagent worker process: seed.py lines 325-332, 339-444
    sub_pc,         \* the worker's position in subagent_runner
    sub_task,       \* subagent_runner's task_id
    sub_messages,   \* subagent_runner's messages
    sub_actions,    \* subagent_runner's actions
    sub_i,          \* subagent_runner's loop index i
    sub_response,   \* subagent_runner's response
    sub_k,          \* the position in tool_calls of the call being executed
    sub_service,    \* how the reasoning service answers this worker
    sub_world,      \* what the file system and the shell do to this worker's
                    \* write and execute calls
    sub_posts,      \* history: the bodies the worker has posted to /inbox
    \* ---- the task registry's lock: seed.py line 62
    agents_lock,    \* _agents_lock: its holder, or Free
    \* ---- the bootloader process: src/seed/seed.py
    birth_pc,       \* the bootloader's position in birth()
    birth_i,        \* wait_for_kernel's loop index i
    birth_response, \* birth's response
    birth_result,   \* birth's result
    birth_exc,      \* the exception that ended birth(), if one did
    birth_files,    \* history: the files written to the brain directory
    birth_commits,  \* history: the commits requested of the kernel
    birth_exec,     \* the program that has replaced the bootloader
    \* ---- main thread
    stack

inboxVars == <<inbox, inbox_lock, net, srv_pc, srv_req, resp, messages, drained>>
stateVars == <<heartbeat, alive, phase, galla>>
clockVars == <<now, ticks>>
healthVars == <<srv_health, bodies>>
agentVars == <<agents, workers, summary>>
callVars == <<tc, result>>
loopVars ==
    <<files, ta_messages, ta_tools, actions, ta_i, response, ta_k, ta_ret,
      service, world, think_calls, subprocesses, latency>>
lifeVars ==
    <<saved_galla, prompt, plan, plan_failed, posted, epochs, boots, persisted,
      intact, completed, crashed, polls, kernel_up>>
subVars ==
    <<sub_pc, sub_task, sub_messages, sub_actions, sub_i, sub_response, sub_k,
      sub_service, sub_world, sub_posts>>
lockVars == <<agents_lock>>
bootVars ==
    <<birth_pc, birth_i, birth_response, birth_result, birth_exc, birth_files,
      birth_commits, birth_exec>>
vars ==
    <<inboxVars, stateVars, clockVars, healthVars, agentVars, callVars,
      loopVars, lifeVars, subVars, lockVars, bootVars, stack>>

\* what the mailbox's inbox operations leave alone
exceptInbox ==
    <<stateVars, clockVars, healthVars, agentVars, callVars, loopVars, lifeVars,
      subVars, lockVars, bootVars>>
\* what a health request leaves alone
exceptHealth ==
    <<inbox, inbox_lock, messages, drained, stateVars, clockVars, agentVars,
      callVars, loopVars, lifeVars, subVars, lockVars, bootVars, stack>>
\* what the subagent supervisor's operations leave alone
exceptAgents ==
    <<inboxVars, stateVars, clockVars, healthVars, loopVars, lifeVars, subVars, lockVars, bootVars>>
\* what no step of the life loop changes
exceptLife ==
    <<net, srv_pc, srv_req, resp, alive, ticks, healthVars, subprocesses, latency,
      subVars, lockVars, bootVars, kernel_up>>
\* what the tool-calling loop leaves alone
exceptLoop == <<inboxVars, stateVars, ticks, healthVars, lifeVars, subVars, lockVars, bootVars>>
\* what a subagent worker process leaves alone: it shares the brain
\* directory and the shell with the primary process, nothing else
exceptWorker ==
    <<inboxVars, stateVars, clockVars, healthVars, callVars, lifeVars, stack,
      ta_messages, ta_tools, actions, ta_i, response, ta_k, ta_ret, service, world,
      think_calls, latency, lockVars, bootVars>>

----------------------------------------------------------------------------
\* Bounds of the model

\* number of POST requests clients send in one run
NumPosts == 2
\* number of drain_inbox calls in one run
MaxDrains == 2
\* number of GET requests clients send in one run
NumGets == 2
\* number of times the clock advances in one run
MaxTicks == 2
\* number of workers started in one run
MaxWorkers == 3

----------------------------------------------------------------------------
\* Generic helpers

Free == "free"
Server == "server"
Main == "main"

RECURSIVE Count(_, _)
\* occurrences of x in the sequence s
Count(s, x) ==
    IF s = <<>> THEN 0
    ELSE (IF Head(s) = x THEN 1 ELSE 0) + Count(Tail(s), x)

RECURSIVE Flatten(_)
\* concatenation of a sequence of sequences
Flatten(ss) == IF ss = <<>> THEN <<>> ELSE Head(ss) \o Flatten(Tail(ss))

\* an empty JSON object
NoData == [k \in {} |-> ""]

\* dict.get(key, default) on a JSON object modelled as a function
Get(d, k, default) == IF k \in DOMAIN d THEN d[k] ELSE default

\* the main thread's current label
pc == Head(stack)
\* the main thread moves to label l within the current frame
Goto(l) == stack' = <<l>> \o Tail(stack)
\* the main thread calls a function entered at label l and continues at k
Call(l, k) == stack' = <<l, k>> \o Tail(stack)
\* the current function returns to its caller's continuation
Return == stack' = Tail(stack)

\* no process is running
Off == {"off", "exited", "killed", "interrupted"}

----------------------------------------------------------------------------
\* threading.Lock
CanAcquireAlways(lock) == TRUE
\* `with lock:` blocks until no thread holds the lock
CanAcquire(lock) == lock = Free

----------------------------------------------------------------------------
\* Subagent supervisor: tool_spawn_agent, check_agents, cleanup_agents

\* JODO_MAX_SUBAGENTS: the concurrency ceiling (a deployment setting)
MAX_SUBAGENTS == 2
\* JODO_SUBAGENT_TIMEOUT: the default timeout (a deployment setting)
SUBAGENT_TIMEOUT == 1

TaskNames == <<"t1", "t2", "t3", "t4", "t5">>

NoCall == [id |-> 0, name |-> "", arguments |-> NoData]
\* a Python value returned by a tool executor: a str with its text, or None
Str(text) == [str |-> TRUE, text |-> text]
PyNone == [str |-> FALSE, text |-> <<"None">>]
NoResult == [str |-> FALSE, text |-> <<>>]

\* a result text is a sequence of words; str.startswith("ERROR:")
IsError(text) == text # <<>> /\ Head(text) = "ERROR:"

\* the positions of the records of _agents whose task_id is tid
Lookup(as, tid) == {i \in DOMAIN as : as[i].task_id = tid}

\* _agents[task_id] = agent: replaces the record of that key in place, or
\* appends a new key
Store(as, a) ==
    IF Lookup(as, a.task_id) = {}
    THEN Append(as, a)
    ELSE [i \in DOMAIN as |-> IF as[i].task_id = a.task_id THEN a ELSE as[i]]

\* multiprocessing.Process.is_alive()
is_alive(state) == state = "alive"

TrackedCount(as, ws) == Len(as)
AliveCount(as, ws) ==
    Cardinality({i \in DOMAIN as : as[i].status = "running" /\ is_alive(ws[as[i].process])})
LiveCountOf(as, ws) ==
    Cardinality({i \in DOMAIN as : as[i].status = "running" /\ ws[as[i].process] = "alive"})
\* lines 78, 463, 586: sum(1 for a in _agents.values() if a.status == "running")
RunningCountOf(as, ws) == Cardinality({i \in DOMAIN as : as[i].status = "running"})

RunningCount(as) == RunningCountOf(as, workers)

limit_exceeded(running) == running > MAX_SUBAGENTS
\* line 464: running >= MAX_SUBAGENTS
limit_reached(running) == running >= MAX_SUBAGENTS

\* the number of live worker processes
LiveWorkers == Cardinality({w \in DOMAIN workers : is_alive(workers[w])})

spawn_verdict_any_id(args) ==
    LET task_id == Get(args, "task_id", "")
        p == Get(args, "prompt", "")
    IN  IF task_id = "" \/ p = "" THEN "required"
        ELSE IF limit_reached(RunningCount(agents)) THEN "limit"
        ELSE "spawn"
\* tool_spawn_agent's verdict on args: which of its return statements runs
spawn_verdict(args) ==
    LET task_id == Get(args, "task_id", "")
        p == Get(args, "prompt", "")
    IN  IF task_id = "" \/ p = "" THEN "required"
        ELSE IF \E i \in Lookup(agents, task_id) : agents[i].status = "running"
        THEN "already"
        ELSE IF limit_reached(RunningCount(agents)) THEN "limit"
        ELSE "spawn"

\* the text tool_spawn_agent returns
spawn_text(args) ==
    LET v == spawn_verdict(args)
    IN  IF v = "required" THEN <<"ERROR:", "task_id and prompt are required">>
        ELSE IF v = "already"
        THEN <<"ERROR:", "agent", args["task_id"], "is already running">>
        ELSE IF v = "limit"
        THEN <<"ERROR:", "max concurrent subagents reached">>
        ELSE <<"OK:", "Subagent", args["task_id"], "spawned">>

\* lines 447-488: tool_spawn_agent(args), under _agents_lock: the checks,
\* then p.start() and the new AgentInfo stored under task_id
tool_spawn_agent(args) ==
    IF spawn_verdict(args) = "spawn"
    THEN /\ workers' = Append(workers, "alive")
         /\ agents' = Store(agents,
                [task_id |-> args["task_id"],
                 prompt |-> args["prompt"],
                 intent |-> Get(args, "intent", "code"),
                 timeout |-> Get(args, "timeout", SUBAGENT_TIMEOUT),
                 process |-> Len(workers) + 1,
                 start_time |-> now,
                 status |-> "running"])
    ELSE UNCHANGED <<agents, workers>>

terminate_missed(ws, w) == ws
\* Process.terminate() followed by join: the worker is dead
terminate(ws, w) == [ws EXCEPT ![w] = "terminated"]

\* lines 496-511: what check_agents does with one record
check_one(a) ==
    IF a.status # "running" THEN a
    ELSE IF ~is_alive(workers[a.process]) THEN [a EXCEPT !.status = "completed"]
    ELSE IF now - a.start_time > a.timeout THEN [a EXCEPT !.status = "timed_out"]
    ELSE a

\* the workers check_agents terminates: alive, of a running record, over time
timed_out_workers ==
    {agents[i].process : i \in {j \in DOMAIN agents :
        /\ agents[j].status = "running"
        /\ is_alive(workers[agents[j].process])
        /\ now - agents[j].start_time > agents[j].timeout}}

\* lines 502, 509, 511, 513: the line check_agents reports for a record
check_line(a) ==
    IF a.status # "running" THEN <<a.task_id, a.status>>
    ELSE IF ~is_alive(workers[a.process]) THEN <<a.task_id, "completed">>
    ELSE IF now - a.start_time > a.timeout THEN <<a.task_id, "TIMED OUT">>
    ELSE <<a.task_id, "running">>

\* lines 491-517: check_agents(), under _agents_lock
check_agents ==
    /\ agents' = [i \in DOMAIN agents |-> check_one(agents[i])]
    /\ workers' = [w \in DOMAIN workers |->
                     IF w \in timed_out_workers
                     THEN terminate(workers, w)[w] ELSE workers[w]]
    /\ summary' = [i \in DOMAIN agents |-> check_line(agents[i])]

\* lines 520-528: cleanup_agents(), under _agents_lock
cleanup_agents ==
    /\ agents' = [i \in DOMAIN agents |->
                    IF agents[i].status = "running"
                       /\ is_alive(workers[agents[i].process])
                    THEN [agents[i] EXCEPT !.status = "failed"]
                    ELSE agents[i]]
    /\ workers' = [w \in DOMAIN workers |->
                     IF \E i \in DOMAIN agents :
                            /\ agents[i].process = w
                            /\ agents[i].status = "running"
                            /\ is_alive(workers[w])
                     THEN terminate(workers, w)[w] ELSE workers[w]]

\* subagent_runner returns (exit code 0) or dies of an exception
WorkerExit(w) ==
    /\ is_alive(workers[w])
    /\ \E how \in {"exited", "crashed"} : workers' = [workers EXCEPT ![w] = how]
    /\ UNCHANGED <<agents, summary, callVars, exceptAgents, stack>>

----------------------------------------------------------------------------
\* The four tools: tool_read, tool_write, tool_execute, tool_restart

\* JODO_BRAIN: a file of the brain directory is a path with its content
NoFiles == <<>>
Exists(fs, path) == path \in DOMAIN fs
\* open(path, "w") then f.write(content)
WriteFile(fs, path, content) ==
    [p \in DOMAIN fs \cup {path} |-> IF p = path THEN content ELSE fs[p]]

\* lines 144-153: tool_read(path)
tool_read(path) ==
    IF Exists(files, path) THEN Str(files[path])
    ELSE Str(<<"ERROR:", "File not found:", path>>)

\* what the file system does to a write: it succeeds, open() fails, or
\* open() truncates the file and f.write() fails
WriteOutcomes == {"ok", "open_fails", "write_fails"}

\* lines 156-165: the files after tool_write(path, content)
tool_write_files(path, content, outcome) ==
    IF outcome = "ok" THEN WriteFile(files, path, content)
    ELSE IF outcome = "write_fails" THEN WriteFile(files, path, <<>>)
    ELSE files

\* lines 163, 165: what tool_write(path, content) returns
tool_write(path, content, outcome) ==
    IF outcome = "ok"
    THEN Str(<<"OK:", "Wrote", path>>)
    ELSE Str(<<"ERROR:", outcome>>)

\* line 170: "seed.py" and "seed .py"; a command is a sequence of characters
BLOCKED_COMMANDS ==
    << <<"s", "e", "e", "d", ".", "p", "y">>,
       <<"s", "e", "e", "d", " ", ".", "p", "y">> >>

\* `part in text` of two strings: part is a substring of text
Contains(text, part) ==
    \E i \in 1..(Len(text) - Len(part) + 1) :
        SubSeq(text, i, i + Len(part) - 1) = part

BlockedFirst(command) == Contains(command, BLOCKED_COMMANDS[1])
\* lines 176-177: some entry of _BLOCKED_COMMANDS is in the command
Blocked(command) ==
    \E b \in DOMAIN BLOCKED_COMMANDS : Contains(command, BLOCKED_COMMANDS[b])

\* lines 173-200: tool_execute(command); the for loop returns at the first
\* entry of the list found in the command
tool_execute(command, outcome) ==
    IF Blocked(command)
    THEN LET first == CHOOSE b \in DOMAIN BLOCKED_COMMANDS :
                        /\ Contains(command, BLOCKED_COMMANDS[b])
                        /\ \A c \in 1..(b - 1) : ~Contains(command, BLOCKED_COMMANDS[c])
         IN  Str(<<"ERROR:", "Cannot run">> \o BLOCKED_COMMANDS[first])
    ELSE IF outcome = "ok" THEN Str(<<"(no output)">>)
    ELSE Str(<<"ERROR:", "Command timed out">>)

\* the world in which every write and command succeeds
Calm == [write |-> "ok", execute |-> "ok", restart |-> "survived"]
\* what the world does: to a write, see WriteOutcomes; to a command, it ends
\* in time or it does not; to POST /api/restart, the kernel is unreachable
\* (line 215, os._exit(0)), it kills the process during the sleep of line
\* 217, or the sleep ends and tool_restart returns
Worlds ==
    [write : WriteOutcomes, execute : {"ok", "timeout"},
     restart : {"unreachable", "killed", "survived"}]

\* lines 304-312: _safe_tool's answer when required parameters are missing
missing(args, required) ==
    {i \in DOMAIN required : required[i] \notin DOMAIN args}
safe_tool_silent(name, required) == Str(<<"OK:", name>>)
\* line 308: the text _safe_tool returns for missing parameters
safe_tool_error(name, required) ==
    Str(<<"ERROR:", "tool", name, "requires parameters:">> \o required)

\* line 315
PLAN_TOOLS == {"read", "execute"}
\* lines 220-302: the names of TOOLS
TOOLS == {"read", "write", "execute", "restart", "spawn_agent"}
\* lines 317-323: the names TOOL_EXECUTORS has an executor for
TOOL_EXECUTORS == {"read", "write", "execute", "restart", "spawn_agent"}

----------------------------------------------------------------------------
\* The reasoning service and think()

\* line 760
max_loops == 50
\* line 796: result[:200]
ExcerptLen == 200

\* text[:n]
Slice(text, n) == SubSeq(text, 1, IF Len(text) < n THEN Len(text) ELSE n)

\* line 766
UNREACHABLE == <<"I", "couldn't reach the kernel", "to think.">>
\* line 805
LOOP_LIMIT == <<"I hit my", "tool loop limit", ". Pausing to avoid runaway.">>

NoResponse == [none |-> TRUE]
NoRet == [kind |-> "none"]
NoService == [tool_calls |-> <<>>, rounds |-> 0, then |-> "final"]
Forever == max_loops + 1

\* the tool calls a response of the service may carry
ToolCall(id, name, arguments) == [id |-> id, name |-> name, arguments |-> arguments]
ToolBatches ==
    { <<ToolCall(1, "read", [path |-> "main.py"])>>,
      <<ToolCall(1, "read", NoData)>>,
      <<ToolCall(1, "write", [path |-> "main.py", content |-> <<"app">>]),
        ToolCall(2, "read", [path |-> "main.py"])>>,
      <<ToolCall(1, "execute", [command |-> <<"l", "s">>])>>,
      <<ToolCall(1, "execute",
                 [command |-> <<"s", "h", " ", "s", "e", "e", "d", ".", "p", "y">>])>>,
      <<ToolCall(1, "execute",
                 [command |-> <<"s", "e", "e", "d", " ", ".", "p", "y", " ", "&">>])>>,
      <<ToolCall(1, "execute", [command |-> <<"s", "e", "e", "d", ".", "p">>])>>,
      <<ToolCall(1, "execute", NoData)>>,
      <<ToolCall(1, "write", [path |-> "main.py"])>>,
      <<ToolCall(1, "restart", NoData)>>,
      <<ToolCall(1, "spawn_agent", [task_id |-> "t1", prompt |-> "do it"])>>,
      <<ToolCall(1, "spawn_agent", [task_id |-> "t1", prompt |-> "do it"]),
        ToolCall(2, "restart", NoData)>>,
      <<ToolCall(1, "fly", NoData)>> }

\* scripts that differ only in what plays no part are one script: the
\* outcome of a tool that is not called, and what follows rounds that
\* never end
Script(calls, n, then, w) ==
    /\ \A t \in {"write", "execute", "restart"} :
            t \notin {calls[i].name : i \in DOMAIN calls} => w[t] = Calm[t]
    /\ n = Forever => then = "final"

\* lines 549-566: think() answers None when the request fails, the parsed
\* response otherwise; n is the number of think calls already made
think(n) ==
    IF n < service.rounds
    THEN [content |-> <<"working">>, tool_calls |-> service.tool_calls, done |-> FALSE]
    ELSE IF service.then = "unreachable" THEN NoResponse
    ELSE IF service.then = "final"
    THEN [content |-> <<"all", "done">>, tool_calls |-> <<>>, done |-> TRUE]
    ELSE IF service.then = "done_with_tools"
    THEN [content |-> <<"all", "done">>, tool_calls |-> service.tool_calls, done |-> TRUE]
    ELSE IF service.then = "empty"
    THEN [content |-> <<>>, tool_calls |-> <<>>, done |-> TRUE]
    ELSE IF service.then = "tools_no_flag"
    THEN [content |-> <<"all", "done">>, tool_calls |-> service.tool_calls]
    ELSE [content |-> <<"resting">>]

----------------------------------------------------------------------------
\* The tool-calling loop: think_and_act

\* the handler an exception raised under the continuation k unwinds to: the
\* except clause of line 1141 when think_and_act was called in live()'s try
\* block, or the caller itself
Catch(k) == IF k \in {"live_planned", "live_acted"} THEN "live_except" ELSE k

\* lines 753-760: think_and_act(messages, tools=tools) is entered and will
\* continue at k
think_and_act(msgs, tools, k) ==
    /\ ta_messages' = msgs
    /\ ta_tools' = tools
    /\ actions' = <<>>
    /\ ta_i' = 0
    /\ ta_k' = 0
    /\ response' = NoResponse
    /\ think_calls' = 0
    /\ ta_ret' = [kind |-> "running"]
    /\ Call("ta_think", k)

ta_return_no_actions(content) ==
    /\ ta_ret' = [kind |-> "returned", content |-> content, actions |-> <<>>]
    /\ Return
\* `return content, actions`
ta_return(content) ==
    /\ ta_ret' = [kind |-> "returned", content |-> content, actions |-> actions]
    /\ Return

\* an exception leaves think_and_act: the frame is dropped and control is at
\* the handler of the caller
ta_raise(exc) ==
    /\ ta_ret' = [kind |-> "raised", exc |-> exc]
    /\ stack' = <<Catch(stack[2])>> \o Tail(Tail(stack))

\* line 805: the for loop is exhausted
ta_loop_limit ==
    /\ pc = "ta_think"
    /\ ta_i >= max_loops
    /\ ta_return(LOOP_LIMIT)
    /\ UNCHANGED <<files, ta_messages, ta_tools, actions, ta_i, response, ta_k,
                   service, world, think_calls, agentVars, callVars, now,
                   subprocesses, latency>>

loop_ends_without_calls(tool_calls, done) == tool_calls = <<>>
\* line 771: `if not tool_calls or done`
loop_ends(tool_calls, done) == tool_calls = <<>> \/ done

\* lines 762-779: one round's think call and what the loop does with the answer
ta_think ==
    /\ pc = "ta_think"
    /\ ta_i < max_loops
    /\ think_calls' = think_calls + 1
    /\ now' = now + latency
    /\ response' = think(think_calls)
    /\ LET content == Get(response', "content", <<>>)
           tool_calls == Get(response', "tool_calls", <<>>)
           done == Get(response', "done", TRUE)
       IN  IF response' = NoResponse
           THEN /\ ta_return(UNREACHABLE)
                /\ UNCHANGED <<ta_messages, ta_k>>
           ELSE IF loop_ends(tool_calls, done)
           THEN /\ ta_return(content)
                /\ UNCHANGED <<ta_messages, ta_k>>
           ELSE /\ ta_messages' = Append(ta_messages,
                        [role |-> "assistant", content |-> content,
                         tool_calls |-> tool_calls])
                /\ ta_k' = 1
                /\ Goto("ta_exec")
                /\ UNCHANGED ta_ret
    /\ UNCHANGED <<files, ta_tools, actions, ta_i, service, world, agentVars, callVars,
                   subprocesses, latency>>

\* lines 796-803: the action and the tool_result message are recorded and the
\* loop moves to the next tool call, or to the next round after the last one;
\* result[:200] raises TypeError when result is not a str
ta_record(call, res, is_error) ==
    /\ tc' = call
    /\ result' = res
    /\ IF ~res.str
       THEN /\ ta_raise("TypeError")
            /\ UNCHANGED <<actions, ta_messages, ta_k, ta_i>>
       ELSE /\ actions' = Append(actions,
                    [tool |-> call.name, args |-> call.arguments,
                     result |-> Slice(res.text, ExcerptLen)])
            /\ ta_messages' = Append(ta_messages,
                    [role |-> "tool_result", tool_call_id |-> call.id,
                     content |-> res.text, is_error |-> is_error])
            /\ IF ta_k < Len(response.tool_calls)
               THEN /\ ta_k' = ta_k + 1
                    /\ UNCHANGED <<ta_i, stack>>
               ELSE /\ ta_k' = 0
                    /\ ta_i' = ta_i + 1
                    /\ Goto("ta_think")
            /\ UNCHANGED ta_ret
    /\ UNCHANGED <<ta_tools, response, service, world, think_calls, now, latency>>

\* line 791
is_error(res) == res.str /\ IsError(res.text)

\* the tool call the loop is at
CurrentCall == response.tool_calls[ta_k]
AtCall(name) == pc = "ta_exec" /\ CurrentCall.name = name

\* line 318: TOOL_EXECUTORS["read"]
exec_read ==
    /\ AtCall("read")
    /\ LET args == CurrentCall.arguments
           res == IF missing(args, <<"path">>) # {}
                  THEN safe_tool_error("read", <<"path">>)
                  ELSE tool_read(args["path"])
       IN  ta_record(CurrentCall, res, is_error(res))
    /\ UNCHANGED <<files, agentVars, subprocesses>>

\* line 319: TOOL_EXECUTORS["write"]
exec_write ==
    /\ AtCall("write")
    /\ LET args == CurrentCall.arguments
       IN  IF missing(args, <<"path", "content">>) # {}
           THEN /\ ta_record(CurrentCall, safe_tool_error("write", <<"path", "content">>), TRUE)
                /\ UNCHANGED files
           ELSE LET res == tool_write(args["path"], args["content"], world.write)
                IN  /\ files' = tool_write_files(args["path"], args["content"], world.write)
                    /\ ta_record(CurrentCall, res, is_error(res))
    /\ UNCHANGED <<agentVars, subprocesses>>

\* line 320: TOOL_EXECUTORS["execute"]
exec_execute ==
    /\ AtCall("execute")
    /\ LET args == CurrentCall.arguments
       IN  IF missing(args, <<"command">>) # {}
           THEN /\ ta_record(CurrentCall, safe_tool_error("execute", <<"command">>), TRUE)
                /\ UNCHANGED subprocesses
           ELSE LET res == tool_execute(args["command"], world.execute)
                IN  /\ subprocesses' =
                        IF Blocked(args["command"]) THEN subprocesses
                        ELSE subprocesses + 1
                    /\ ta_record(CurrentCall, res, is_error(res))
    /\ UNCHANGED <<files, agentVars>>

\* lines 203-217 and 321: TOOL_EXECUTORS["restart"] is tool_restart(), which
\* ends the process or returns None
exec_restart ==
    /\ AtCall("restart")
    /\ IF world.restart = "survived"
       THEN ta_record(CurrentCall, PyNone, FALSE)
       ELSE /\ stack' = <<IF world.restart = "unreachable" THEN "exited" ELSE "killed">>
            /\ tc' = CurrentCall
            /\ UNCHANGED <<result, ta_messages, ta_tools, actions, ta_i, response,
                           ta_k, ta_ret, service, world, think_calls, now, latency>>
    /\ UNCHANGED <<files, agentVars, subprocesses>>

\* line 322: TOOL_EXECUTORS["spawn_agent"]
exec_spawn_agent ==
    /\ AtCall("spawn_agent")
    /\ LET args == CurrentCall.arguments
           res == Str(spawn_text(args))
       IN  /\ tool_spawn_agent(args)
           /\ ta_record(CurrentCall, res, is_error(res))
    /\ UNCHANGED <<files, summary, subprocesses>>

\* lines 792-794: no executor has that name
exec_unknown ==
    /\ pc = "ta_exec"
    /\ CurrentCall.name \notin TOOL_EXECUTORS
    /\ ta_record(CurrentCall, Str(<<"ERROR:", "Unknown tool:", CurrentCall.name>>), TRUE)
    /\ UNCHANGED <<files, agentVars, subprocesses>>


----------------------------------------------------------------------------
\* A subagent worker: subagent_runner

\* line 377
sub_max_loops == 30
\* line 397: result_msg[:2000]
RESULT_MAX == 2000

all_executors == TOOL_EXECUTORS
\* lines 328-332: the names SUBAGENT_EXECUTORS has an executor for
SUBAGENT_EXECUTORS == {"read", "write", "execute"}

\* line 393: "(no output)"; a result text is a sequence of characters
NO_OUTPUT ==
    <<"(", "n", "o", " ", "o", "u", "t", "p", "u", "t", ")">>
\* line 439: f"Hit tool loop limit ({max_loops} iterations). Partial work done."
HIT_LIMIT ==
    <<"H", "i", "t", " ", "t", "o", "o", "l", " ", "l", "o", "o", "p", " ",
      "l", "i", "m", "i", "t", " ", "(", "3", "0", " ", "i", "t", "e", "r",
      "a", "t", "i", "o", "n", "s", ")", ".", " ", "P", "a", "r", "t", "i",
      "a", "l", " ", "w", "o", "r", "k", " ", "d", "o", "n", "e", ".">>
\* a final answer of the service longer than RESULT_MAX characters
LongText == [c \in 1..(RESULT_MAX + 1) |-> "x"]

\* lines 345-360: agent_think() answers None when the request fails, the
\* parsed response otherwise; n is the number of think calls already made
agent_think(n) ==
    IF n < sub_service.rounds
    THEN [content |-> <<"working">>, tool_calls |-> sub_service.tool_calls,
          done |-> FALSE]
    ELSE IF sub_service.then = "unreachable" THEN NoResponse
    ELSE IF sub_service.then = "final"
    THEN [content |-> <<"o", "k">>, tool_calls |-> <<>>, done |-> TRUE]
    ELSE IF sub_service.then = "done_with_tools"
    THEN [content |-> <<"o", "k">>, tool_calls |-> sub_service.tool_calls,
          done |-> TRUE]
    ELSE IF sub_service.then = "long"
    THEN [content |-> LongText, tool_calls |-> <<>>, done |-> TRUE]
    ELSE IF sub_service.then = "empty"
    THEN [content |-> <<>>, tool_calls |-> <<>>, done |-> TRUE]
    ELSE [model |-> "m"]

result_msg_raw(content) == content
\* line 393: content or "(no output)"
result_msg(content) == IF content = <<>> THEN NO_OUTPUT ELSE content

sub_post_nothing(message) ==
    /\ sub_posts' = sub_posts
    /\ sub_pc' = "returned"
\* lines 394-401 and 436-443: session.post to /inbox of the primary process,
\* whose failure is swallowed; the worker function then returns
sub_post(message) ==
    /\ sub_posts' = Append(sub_posts,
            [source |-> <<"subagent:", sub_task>>, message |-> message])
    /\ sub_pc' = "returned"

\* lines 381-409: one round's think call and what the loop does with the
\* answer; a failed think call breaks out of the loop to line 435
sub_think ==
    /\ sub_pc = "think"
    /\ sub_i < sub_max_loops
    /\ sub_response' = agent_think(sub_i)
    /\ LET content == Get(sub_response', "content", <<>>)
           tool_calls == Get(sub_response', "tool_calls", <<>>)
           done == Get(sub_response', "done", TRUE)
       IN  IF sub_response' = NoResponse
           THEN /\ sub_post(HIT_LIMIT)
                /\ UNCHANGED <<sub_messages, sub_k>>
           ELSE IF tool_calls = <<>> \/ done
           THEN /\ sub_post(Slice(result_msg(content), RESULT_MAX))
                /\ UNCHANGED <<sub_messages, sub_k>>
           ELSE /\ sub_messages' = Append(sub_messages,
                        [role |-> "assistant", content |-> content,
                         tool_calls |-> tool_calls])
                /\ sub_k' = 1
                /\ sub_pc' = "exec"
                /\ UNCHANGED sub_posts
    /\ UNCHANGED <<sub_task, sub_actions, sub_i, sub_service, sub_world, files,
                   subprocesses, agentVars, exceptWorker>>

\* lines 435-444: the for loop is exhausted
sub_loop_limit ==
    /\ sub_pc = "think"
    /\ sub_i >= sub_max_loops
    /\ sub_post(HIT_LIMIT)
    /\ UNCHANGED <<sub_task, sub_messages, sub_actions, sub_i, sub_response, sub_k,
                   sub_service, sub_world, files, subprocesses, agentVars,
                   exceptWorker>>

\* lines 411-433: one tool call.  SUBAGENT_EXECUTORS.get(name) is the
\* executor TOOL_EXECUTORS has under that name, or None
sub_tool ==
    /\ sub_pc = "exec"
    /\ LET o == sub_world
            call == sub_response.tool_calls[sub_k]
            name == call.name
            args == call.arguments
            executor == name \in SUBAGENT_EXECUTORS
            required == IF name = "read" THEN <<"path">>
                        ELSE IF name = "write" THEN <<"path", "content">>
                        ELSE IF name = "execute" THEN <<"command">>
                        ELSE <<>>
            runs == executor /\ missing(args, required) = {}
            res == IF ~executor THEN Str(<<"ERROR:", "Unknown tool:", name>>)
                   ELSE IF ~runs THEN safe_tool_error(name, required)
                   ELSE IF name = "read" THEN tool_read(args["path"])
                   ELSE IF name = "write"
                   THEN tool_write(args["path"], args["content"], o.write)
                   ELSE IF name = "execute" THEN tool_execute(args["command"], o.execute)
                   ELSE IF name = "restart" THEN PyNone
                   ELSE Str(spawn_text(args))
            exits == runs /\ name = "restart" /\ o.restart # "survived"
        IN  /\ files' = IF runs /\ name = "write"
                        THEN tool_write_files(args["path"], args["content"], o.write)
                        ELSE files
            /\ subprocesses' = IF runs /\ name = "execute" /\ ~Blocked(args["command"])
                               THEN subprocesses + 1
                               ELSE subprocesses
            /\ IF runs /\ name = "spawn_agent"
               THEN tool_spawn_agent(args) /\ UNCHANGED summary
               ELSE UNCHANGED agentVars
            /\ IF exits
               THEN /\ sub_pc' = "exited"
                    /\ UNCHANGED <<sub_actions, sub_messages, sub_k, sub_i>>
               ELSE /\ sub_actions' = Append(sub_actions,
                            [tool |-> name, args |-> args])
                    /\ sub_messages' = Append(sub_messages,
                            [role |-> "tool_result", tool_call_id |-> call.id,
                             content |-> res.text,
                             is_error |-> IF executor THEN is_error(res) ELSE TRUE])
                    /\ IF sub_k < Len(sub_response.tool_calls)
                       THEN /\ sub_k' = sub_k + 1
                            /\ UNCHANGED <<sub_i, sub_pc>>
                       ELSE /\ sub_k' = 0
                            /\ sub_i' = sub_i + 1
                            /\ sub_pc' = "think"
    /\ UNCHANGED <<sub_task, sub_response, sub_service, sub_world, sub_posts,
                   exceptWorker>>

\* lines 505-506 and 524-525: the primary process terminates the worker
sub_terminated ==
    /\ sub_pc \in {"think", "exec"}
    /\ sub_pc' = "terminated"
    /\ UNCHANGED <<sub_task, sub_messages, sub_actions, sub_i, sub_response, sub_k,
                   sub_service, sub_world, sub_posts, files, subprocesses,
                   agentVars, exceptWorker>>

----------------------------------------------------------------------------
\* Mailbox server: SeedHandler.do_POST

MsgTexts == <<"m1", "m2", "m3", "m4", "m5">>

\* the JSON bodies a client may send with request r: a message (its text
\* identifies the request), an empty message, no message field
Bodies(r) ==
    {[message |-> MsgTexts[r], source |-> s] : s \in {"kernel", "subagent:t1"}}
    \cup {[message |-> MsgTexts[r]]}
    \cup {[message |-> "", source |-> "kernel"]}
    \cup {[source |-> "kernel"]}

\* requests: id, path, whether the body parses as JSON, the parsed body
PostRequests(r) ==
    {[id |-> r, method |-> "POST", path |-> "/inbox", json |-> TRUE, data |-> b] :
        b \in Bodies(r)}
    \cup {[id |-> r, method |-> "POST", path |-> "/inbox", json |-> FALSE,
           data |-> NoData],
          [id |-> r, method |-> "POST", path |-> "/other", json |-> TRUE,
           data |-> [message |-> MsgTexts[r]]]}

NoReq == [id |-> 0, method |-> "", path |-> "", json |-> FALSE, data |-> NoData]

InboxEntryAsSent(data) == data
\* the entry line 104 appends for the parsed body data
InboxEntry(data) ==
    [message |-> Get(data, "message", ""), source |-> Get(data, "source", "unknown")]

\* whether request r has been sent
Sent(r) == resp[r] # 0 \/ srv_req.id = r \/ \E q \in net : q.id = r

\* a client sends POST request r (each request id is sent once; the ids
\* number the requests in the order they are sent)
SendPost(r) ==
    /\ ~Sent(r)
    /\ \A q \in 1..(r - 1) : Sent(q)
    /\ \E q \in PostRequests(r) : net' = net \cup {q}
    /\ UNCHANGED <<inbox, inbox_lock, srv_pc, srv_req, resp, messages, drained>>
    /\ UNCHANGED <<exceptInbox, stack>>

\* do_POST up to the lock: path check, body parse, `if msg:`
do_POST ==
    /\ srv_pc = "idle"
    /\ \E q \in net :
        /\ q.method = "POST"
        /\ net' = net \ {q}
        /\ IF q.path # "/inbox"
           THEN /\ resp' = [resp EXCEPT ![q.id] = 404]
                /\ UNCHANGED <<srv_pc, srv_req>>
           ELSE IF ~q.json
           THEN \* json.loads raises: the except branch answers 400
                /\ resp' = [resp EXCEPT ![q.id] = 400]
                /\ UNCHANGED <<srv_pc, srv_req>>
           ELSE IF Get(q.data, "message", "") = ""
           THEN /\ resp' = [resp EXCEPT ![q.id] = 400]
                /\ UNCHANGED <<srv_pc, srv_req>>
           ELSE /\ srv_pc' = "post_acquire"
                /\ srv_req' = q
                /\ UNCHANGED resp
    /\ UNCHANGED <<inbox, inbox_lock, messages, drained>>
    /\ UNCHANGED <<exceptInbox, stack>>

\* line 103: with _inbox_lock
do_POST_acquire ==
    /\ srv_pc = "post_acquire"
    /\ CanAcquire(inbox_lock)
    /\ inbox_lock' = Server
    /\ srv_pc' = "post_append"
    /\ UNCHANGED <<inbox, net, srv_req, resp, messages, drained>>
    /\ UNCHANGED <<exceptInbox, stack>>

\* line 104: _inbox.append(...)
do_POST_append ==
    /\ srv_pc = "post_append"
    /\ inbox' = Append(inbox, InboxEntry(srv_req.data))
    /\ srv_pc' = "post_release"
    /\ UNCHANGED <<inbox_lock, net, srv_req, resp, messages, drained>>
    /\ UNCHANGED <<exceptInbox, stack>>

\* end of the with block of line 103
do_POST_release ==
    /\ srv_pc = "post_release"
    /\ inbox_lock' = Free
    /\ srv_pc' = "post_respond"
    /\ UNCHANGED <<inbox, net, srv_req, resp, messages, drained>>
    /\ UNCHANGED <<exceptInbox, stack>>

\* lines 105-108: answer 200
do_POST_respond ==
    /\ srv_pc = "post_respond"
    /\ resp' = [resp EXCEPT ![srv_req.id] = 200]
    /\ srv_pc' = "idle"
    /\ srv_req' = NoReq
    /\ UNCHANGED <<inbox, inbox_lock, net, messages, drained>>
    /\ UNCHANGED <<exceptInbox, stack>>

----------------------------------------------------------------------------
\* Mailbox server: SeedHandler.do_GET

\* default of JODO_SLEEP_SECONDS
SLEEP_SECONDS == 30
\* line 46
HEARTBEAT_MAX == SLEEP_SECONDS + 600 + 60

NoHealth == [status |-> "", code |-> 0]
NoBody == [status |-> "", galla |-> -1, alive |-> FALSE, phase |-> "",
           heartbeat_age |-> -1, active_agents |-> -1]

GetRequests(r) ==
    {[id |-> r, method |-> "GET", path |-> p, json |-> FALSE, data |-> NoData] :
        p \in {"/health", "/other"}}

\* a client sends GET request r
SendGet(r) ==
    /\ ~Sent(r)
    /\ \A q \in 1..(r - 1) : Sent(q)
    /\ \E q \in GetRequests(r) : net' = net \cup {q}
    /\ UNCHANGED <<srv_pc, srv_req, resp, healthVars, exceptHealth>>

staleAtOrOver(t, hb) == (t - hb) >= HEARTBEAT_MAX
\* line 73: stale = (time.time() - _heartbeat) > _HEARTBEAT_MAX
stale(t, hb) == (t - hb) > HEARTBEAT_MAX

healthyIfFresh(a, st) == ~st
\* line 74: healthy = alive and not stale
healthy(a, st) == a /\ ~st

\* lines 72-76: the path check, then stale, healthy, status and code
do_GET ==
    /\ pc \notin Off
    /\ srv_pc = "idle"
    /\ \E q \in net :
        /\ q.method = "GET"
        /\ net' = net \ {q}
        /\ IF q.path # "/health"
           THEN /\ resp' = [resp EXCEPT ![q.id] = 404]
                /\ UNCHANGED <<srv_pc, srv_req, srv_health>>
           ELSE /\ srv_pc' = "get_respond"
                /\ srv_req' = q
                /\ srv_health' =
                     IF healthy(alive, stale(now, heartbeat))
                     THEN [status |-> "ok", code |-> 200]
                     ELSE [status |-> "unhealthy", code |-> 503]
                /\ UNCHANGED resp
    /\ UNCHANGED <<bodies, exceptHealth>>

\* lines 77-90: count the running agents under _agents_lock, build the
\* body, send the response
do_GET_respond ==
    /\ pc \notin Off
    /\ srv_pc = "get_respond"
    /\ bodies' = [bodies EXCEPT ![srv_req.id] =
                    [status |-> srv_health.status,
                     galla |-> galla,
                     alive |-> alive,
                     phase |-> phase,
                     heartbeat_age |-> now - heartbeat,
                     active_agents |-> RunningCount(agents)]]
    /\ resp' = [resp EXCEPT ![srv_req.id] = srv_health.code]
    /\ srv_pc' = "idle"
    /\ srv_req' = NoReq
    /\ srv_health' = NoHealth
    /\ UNCHANGED <<net, exceptHealth>>

----------------------------------------------------------------------------
\* drain_inbox (main thread)

\* line 126: with _inbox_lock
drain_inbox_acquire ==
    /\ pc = "drain_acquire"
    /\ CanAcquire(inbox_lock)
    /\ inbox_lock' = Main
    /\ Goto("drain_copy")
    /\ UNCHANGED <<inbox, net, srv_pc, srv_req, resp, messages, drained>>
    /\ UNCHANGED exceptInbox

\* line 127: messages = list(_inbox)
drain_inbox_copy ==
    /\ pc = "drain_copy"
    /\ messages' = inbox
    /\ Goto("drain_clear")
    /\ UNCHANGED <<inbox, inbox_lock, net, srv_pc, srv_req, resp, drained>>
    /\ UNCHANGED exceptInbox

\* line 128: _inbox.clear()
drain_inbox_clear ==
    /\ pc = "drain_clear"
    /\ inbox' = <<>>
    /\ Goto("drain_release")
    /\ UNCHANGED <<inbox_lock, net, srv_pc, srv_req, resp, messages, drained>>
    /\ UNCHANGED exceptInbox

\* end of the with block, line 129: return messages
drain_inbox_return ==
    /\ pc = "drain_release"
    /\ inbox_lock' = Free
    /\ drained' = Append(drained, messages)
    /\ Return
    /\ UNCHANGED <<inbox, net, srv_pc, srv_req, resp, messages>>
    /\ UNCHANGED exceptInbox

----------------------------------------------------------------------------
\* The mailbox alone: clients post, the main thread drains now and then

\* the mailbox at process start, with n requests to come
InitInbox(n) ==
    /\ inbox = <<>>
    /\ inbox_lock = Free
    /\ net = {}
    /\ srv_pc = "idle"
    /\ srv_req = NoReq
    /\ resp = [r \in 1..n |-> 0]
    /\ messages = <<>>
    /\ drained = <<>>

\* the module-level state of lines 38-44 of a process started at time t
InitState(t) ==
    /\ galla = 0
    /\ alive = TRUE
    /\ heartbeat = t
    /\ phase = "booting"

\* the clock reads t
InitClock(t) ==
    /\ now = t
    /\ ticks = 0

InitHealth(n) ==
    /\ srv_health = NoHealth
    /\ bodies = [r \in 1..n |-> NoBody]

\* lines 61-62: no agent tracked, no worker started; no tool call made
InitAgents(ws) ==
    /\ agents = <<>>
    /\ agents_lock = Free
    /\ workers = ws
    /\ summary = <<>>
    /\ tc = NoCall
    /\ result = NoResult

\* no think_and_act is running; fs is what the brain directory holds
InitLoop(fs, secs) ==
    /\ files = fs
    /\ subprocesses = 0
    /\ latency = secs
    /\ ta_messages = <<>>
    /\ ta_tools = <<>>
    /\ actions = <<>>
    /\ ta_i = 0
    /\ response = NoResponse
    /\ ta_k = 0
    /\ ta_ret = NoRet
    /\ service = NoService
    /\ world = Calm
    /\ think_calls = 0

\* the bootloader at position at, before anything has happened
InitBirth(at) ==
    /\ birth_pc = at
    /\ birth_i = 0
    /\ birth_response = PyNone
    /\ birth_result = [type |-> "none", value |-> <<>>]
    /\ birth_exc = ""
    /\ birth_files = <<>>
    /\ birth_commits = <<>>
    /\ birth_exec = PyNone

\* lines 374-379: a worker at `at` with its task and the service's script;
\* `at` is "none" where no worker is looked at
InitWorker(at, tasks, scripts) ==
    /\ sub_pc = at
    /\ sub_task \in tasks
    /\ sub_service \in scripts
    /\ sub_world \in {w \in Worlds :
            Script(sub_service.tool_calls, sub_service.rounds, sub_service.then, w)}
    /\ sub_messages = <<[role |-> "user", content |-> <<"prompt">>]>>
    /\ sub_actions = <<>>
    /\ sub_i = 0
    /\ sub_k = 0
    /\ sub_response = NoResponse
    /\ sub_posts = <<>>

\* no process has run yet
InitLife(n) ==
    /\ saved_galla = 0
    /\ prompt = <<>>
    /\ plan = <<>>
    /\ plan_failed = FALSE
    /\ posted = <<>>
    /\ epochs = n
    /\ boots = n
    /\ persisted = 0
    /\ intact = FALSE
    /\ completed = FALSE
    /\ crashed = FALSE
    /\ polls = n
    /\ kernel_up = TRUE

\* the main thread calls drain_inbox()
CallDrain ==
    /\ pc = "idle"
    /\ Len(drained) < MaxDrains
    /\ Call("drain_acquire", "idle")
    /\ UNCHANGED <<inboxVars, exceptInbox>>

NextInbox ==
    \/ \E r \in 1..NumPosts : SendPost(r)
    \/ do_POST
    \/ do_POST_acquire
    \/ do_POST_append
    \/ do_POST_release
    \/ do_POST_respond
    \/ CallDrain
    \/ drain_inbox_acquire
    \/ drain_inbox_copy
    \/ drain_inbox_clear
    \/ drain_inbox_return

SpecInbox ==
    /\ InitInbox(NumPosts) /\ InitClock(0) /\ InitState(0) /\ InitHealth(NumPosts) /\ InitAgents(<<>>) /\ InitLoop(NoFiles, 0) /\ InitLife(0) /\ InitWorker("none", {"t1"}, {NoService})
    /\ InitBirth("off")
    /\ stack = <<"idle">>
    /\ [][NextInbox]_vars

----------------------------------------------------------------------------
\* The health endpoint alone: the clock advances, the main thread refreshes
\* the heartbeat (line 1066) or flags itself dead (line 1165), clients probe

\* think_and_act's locals and the last tool call are no longer held
forget_loop ==
    /\ ta_messages' = <<>>
    /\ ta_tools' = <<>>
    /\ actions' = <<>>
    /\ ta_i' = 0
    /\ response' = NoResponse
    /\ ta_k' = 0
    /\ ta_ret' = NoRet
    /\ service' = NoService
    /\ world' = Calm
    /\ think_calls' = 0
    /\ tc' = NoCall
    /\ result' = NoResult

\* lines 1161-1163: a KeyboardInterrupt ends live(); cleanup_agents(), and
\* the process exits, its server thread (a daemon thread, line 134) with it
Interrupted ==
    /\ pc \notin Off
    /\ cleanup_agents
    /\ stack' = <<"interrupted">>
    /\ forget_loop
    /\ prompt' = <<>> /\ plan' = <<>> /\ plan_failed' = FALSE
    /\ inbox_lock' = Free
    /\ crashed' = FALSE
    /\ UNCHANGED <<files, inbox, messages, drained, stateVars, now, summary,
                   saved_galla, posted, epochs, polls, boots, persisted, intact, completed, exceptLife>>

\* the clock advances by d seconds
Tick(d) ==
    /\ ticks < MaxTicks
    /\ now' = now + d
    /\ ticks' = ticks + 1
    /\ UNCHANGED <<inboxVars, stateVars, healthVars, agentVars, callVars, loopVars,
                   lifeVars, subVars, lockVars, bootVars, stack>>

\* line 1066: _heartbeat = time.time()
HeartbeatUpdate ==
    /\ pc = "idle"
    /\ heartbeat' = now
    /\ UNCHANGED <<alive, phase, galla, inboxVars, clockVars, healthVars>>
    /\ UNCHANGED <<agentVars, callVars, loopVars, lifeVars, subVars, lockVars, bootVars, stack>>

\* lines 1164-1173: an exception has ended live(): alive = False,
\* cleanup_agents(), and the main thread sleeps for ever
LifeLoopDies ==
    /\ pc \notin Off
    /\ alive
    /\ alive' = FALSE
    /\ cleanup_agents
    /\ stack' = <<"dead">>
    /\ UNCHANGED <<heartbeat, phase, galla, inboxVars, clockVars, healthVars>>
    /\ UNCHANGED <<summary, callVars, loopVars, lifeVars, subVars, lockVars, bootVars>>

\* the steps of the clock between two looks at it: one second, or a jump to
\* just before or just at the staleness limit

NextHealth ==
    \/ \E d \in {1, HEARTBEAT_MAX - 1, HEARTBEAT_MAX} : Tick(d)
    \/ HeartbeatUpdate
    \/ LifeLoopDies
    \/ \E r \in 1..NumGets : SendGet(r)
    \/ do_GET
    \/ do_GET_respond

SpecHealth ==
    /\ InitInbox(NumGets) /\ InitClock(0) /\ InitState(0) /\ InitHealth(NumGets) /\ InitAgents(<<>>) /\ InitLoop(NoFiles, 0) /\ InitLife(0) /\ InitWorker("none", {"t1"}, {NoService})
    /\ InitBirth("off")
    /\ stack = <<"idle">>
    /\ [][NextHealth]_vars

\* The ways live() ends, seen from the health endpoint: an exception (lines
\* 1164-1173) or a KeyboardInterrupt (lines 1161-1163); clients probe, and
\* the server thread serves for as long as the process exists (line 134:
\* serve_forever)
SpecDeath ==
    /\ InitInbox(NumGets) /\ InitClock(0) /\ InitState(0) /\ InitHealth(NumGets)
    /\ InitAgents(<<>>) /\ InitLoop(NoFiles, 0) /\ InitLife(0) /\ InitWorker("none", {"t1"}, {NoService})
    /\ InitBirth("off")
    /\ stack = <<"idle">>
    /\ [][\/ LifeLoopDies
          \/ Interrupted
          \/ (pc \notin Off /\ Tick(1))
          \/ \E r \in 1..NumGets : SendGet(r)
          \/ do_GET
          \/ do_GET_respond]_vars
    /\ WF_vars(do_GET) /\ WF_vars(do_GET_respond)

\* C14 as stated: once the life loop has died, by the fatal path or by a
\* KeyboardInterrupt, every GET /health waiting to be served is answered,
\* and answered 503.
DeadStaysUnhealthyAsStated ==
    \A r \in 1..NumGets :
        ((~alive \/ pc = "interrupted")
            /\ \E q \in net : q.id = r /\ q.path = "/health")
        ~> (resp[r] = 503)

\* C14 as amended: Unhealthy after death.  Once an exception has ended
\* live() (the fatal path: alive is false), alive stays false; every
\* GET /health the handler takes up from then on is evaluated unhealthy
\* with 503; and every GET /health waiting to be served is answered 503
\* with alive false in its body, unless the process is ended from outside.
DeadStaysUnhealthy ==
    /\ [][/\ ~alive => ~alive'
          /\ (~alive /\ srv_pc = "idle" /\ srv_pc' = "get_respond") =>
                srv_health' = [status |-> "unhealthy", code |-> 503]
         ]_vars
    /\ \A r \in 1..NumGets :
        (~alive /\ \E q \in net : q.id = r /\ q.path = "/health")
        ~> ((resp[r] = 503 /\ ~bodies[r].alive /\ bodies[r].status = "unhealthy")
            \/ pc \in Off)

\* witness of C14: live() has died with a fresh heartbeat, and a probe has
\* since been answered unhealthy, alive false, the process still serving
DeadStaysUnhealthyWitness ==
    /\ pc = "dead"
    /\ ~alive
    /\ heartbeat = 0 /\ now <= HEARTBEAT_MAX
    /\ resp[1] = 503
    /\ bodies[1].status = "unhealthy"
    /\ ~bodies[1].alive
    /\ bodies[1].heartbeat_age <= HEARTBEAT_MAX

\* C10: Health staleness.  Each GET /health is answered ok with 200 when,
\* at the moment the handler evaluates it, alive is true and
\* now - heartbeat is at most max_staleness, and unhealthy with 503
\* otherwise; the code sent is the one evaluated.
HealthStaleness ==
    [][/\ (srv_pc = "idle" /\ srv_pc' = "get_respond") =>
            LET fresh == alive /\ now - heartbeat <= SLEEP_SECONDS + 600 + 60
            IN  /\ fresh => srv_health' = [status |-> "ok", code |-> 200]
                /\ ~fresh => srv_health' = [status |-> "unhealthy", code |-> 503]
       /\ (srv_pc = "get_respond" /\ srv_pc' = "idle") =>
            /\ resp'[srv_req.id] = srv_health.code
            /\ bodies'[srv_req.id].status = srv_health.status
      ]_vars

\* witness of C10: with alive true, a probe at heartbeat + S is answered ok
\* and a probe one second later is answered unhealthy
HealthStalenessWitness ==
    /\ alive
    /\ heartbeat = 0
    /\ resp[1] = 200 /\ bodies[1].heartbeat_age = HEARTBEAT_MAX
    /\ resp[2] = 503 /\ bodies[2].heartbeat_age = HEARTBEAT_MAX + 1
    /\ bodies[2].alive

----------------------------------------------------------------------------
\* The supervisor alone: the main thread spawns, polls and finally shuts
\* down; workers exit on their own; the clock advances

\* the arguments the agent may pass to spawn_agent: a task id and a
\* prompt, for the first task possibly a shorter timeout, or a call with
\* the prompt missing or the task id empty
SpawnArgs ==
    {[task_id |-> TaskNames[i], prompt |-> "do it"] : i \in 1..(MAX_SUBAGENTS + 1)}
    \cup {[task_id |-> TaskNames[1], prompt |-> "do it",
           timeout |-> SUBAGENT_TIMEOUT - 1]}
    \cup {[task_id |-> TaskNames[1]], [task_id |-> "", prompt |-> "do it"]}

\* task ids are interchangeable: a task id not used so far is taken to be
\* the first unused name
FirstUnused(tid) ==
    \A i \in 1..Len(TaskNames) :
        (TaskNames[i] = tid /\ Lookup(agents, tid) = {}) =>
            \A j \in 1..(i - 1) : Lookup(agents, TaskNames[j]) # {}

\* the main thread runs tool_spawn_agent(args)
Spawn ==
    /\ pc = "idle"
    /\ Len(workers) < MaxWorkers
    /\ \E args \in SpawnArgs :
        /\ FirstUnused(Get(args, "task_id", ""))
        /\ tc' = [id |-> 1, name |-> "spawn_agent", arguments |-> args]
        /\ tool_spawn_agent(args)
        /\ result' = Str(spawn_text(args))
    /\ Goto("spawned")
    /\ UNCHANGED <<summary, exceptAgents>>

\* the main thread runs check_agents()
Poll ==
    /\ pc = "idle"
    /\ check_agents
    /\ Goto("polled")
    /\ UNCHANGED <<callVars, exceptAgents>>

\* the caller has used the returned text and goes on
Resume ==
    /\ pc \in {"spawned", "polled"}
    /\ tc' = NoCall
    /\ result' = NoResult
    /\ summary' = <<>>
    /\ Goto("idle")
    /\ UNCHANGED <<agents, workers, exceptAgents>>

\* lines 1163, 1166: cleanup_agents() once the life loop has ended
Shutdown ==
    /\ pc = "idle"
    /\ cleanup_agents
    /\ stack' = <<"ended">>
    /\ UNCHANGED <<summary, callVars, exceptAgents>>

NextAgents ==
    \/ Spawn
    \/ Poll
    \/ Resume
    \/ Shutdown
    \/ \E w \in DOMAIN workers : WorkerExit(w)
    \/ (pc # "ended" /\ Tick(1))

\* the supervisor spawning and polling while workers exit and a client
\* probes /health
NextRoster ==
    \/ Spawn
    \/ Poll
    \/ Resume
    \/ \E w \in DOMAIN workers : WorkerExit(w)
    \/ SendGet(1)
    \/ do_GET
    \/ do_GET_respond

SpecRoster ==
    /\ InitInbox(1) /\ InitClock(0) /\ InitState(0) /\ InitHealth(1)
    /\ InitAgents(<<>>) /\ InitLoop(NoFiles, 0) /\ InitLife(0)
    /\ InitWorker("none", {"t1"}, {NoService})
    /\ InitBirth("off")
    /\ stack = <<"idle">>
    /\ [][NextRoster]_vars

\* C33: Stale running tasks.  A task recorded as running whose worker
\* process has exited keeps its record unchanged until a poll, which marks
\* it completed.  Until then a spawn with its task_id and a prompt is refused as
\* already running and starts no process, a spawn with another task_id is
\* refused for the limit when the records with status running, the stale
\* ones included, number MAX_SUBAGENTS or more, and the health endpoint
\* reports all of them as active.
StaleTaskStillCounts ==
    [][LET gone(i) == /\ agents[i].status = "running"
                      /\ workers[agents[i].process] # "alive"
           stuck == {i \in DOMAIN agents : gone(i)}
           marked == Cardinality({i \in DOMAIN agents : agents[i].status = "running"})
           spawning == pc = "idle" /\ pc' = "spawned"
           tid == IF "task_id" \in DOMAIN tc'.arguments
                  THEN tc'.arguments.task_id ELSE ""
       IN  /\ \A i \in stuck :
                /\ i \in DOMAIN agents'
                /\ agents'[i] # agents[i] =>
                        (pc = "idle" /\ pc' = "polled" /\ agents'[i].status = "completed")
           /\ (/\ spawning /\ "prompt" \in DOMAIN tc'.arguments
               /\ \E i \in stuck : agents[i].task_id = tid) =>
                /\ result'.text = <<"ERROR:", "agent", tid, "is already running">>
                /\ workers' = workers /\ agents' = agents
           /\ (/\ spawning /\ stuck # {} /\ marked >= MAX_SUBAGENTS
               /\ tid # "" /\ "prompt" \in DOMAIN tc'.arguments
               /\ \A i \in DOMAIN agents :
                    agents[i].status = "running" => agents[i].task_id # tid) =>
                /\ result'.text = <<"ERROR:", "max concurrent subagents reached">>
                /\ workers' = workers /\ agents' = agents
           /\ (srv_pc = "get_respond" /\ srv_pc' = "idle") =>
                bodies'[srv_req.id].active_agents = marked
      ]_vars

\* the only worker has exited and no poll has run: its task is still
\* running, the health endpoint has reported one active agent, and a
\* spawn under its task_id has just been refused
StaleTaskStillCountsWitness ==
    /\ Len(agents) = 1
    /\ agents[1].status = "running"
    /\ workers = <<"exited">>
    /\ resp[1] = 200
    /\ bodies[1].active_agents = 1
    /\ pc = "spawned"
    /\ result.text = <<"ERROR:", "agent", agents[1].task_id, "is already running">>

SpecAgents ==
    /\ InitInbox(NumGets) /\ InitClock(0) /\ InitState(0) /\ InitHealth(NumGets)
    /\ InitAgents(<<>>) /\ InitLoop(NoFiles, 0) /\ InitLife(0) /\ InitWorker("none", {"t1"}, {NoService})
    /\ InitBirth("off")
    /\ stack = <<"idle">>
    /\ [][NextAgents]_vars

\* C3: Concurrency ceiling.  A spawn_agent call made while MAX_SUBAGENTS
\* records have status running returns a text starting with ERROR:, starts
\* no worker and leaves every record and every worker as it was.
SpawnAtCeilingRejected ==
    [][(pc = "idle" /\ pc' = "spawned" /\ RunningCount(agents) >= MAX_SUBAGENTS) =>
            /\ result'.str /\ IsError(result'.text)
            /\ workers' = workers
            /\ agents' = agents
      ]_vars

\* witness of C3: a spawn naming a fresh task id has just been rejected at
\* the ceiling, the running records still being MAX_SUBAGENTS
SpawnAtCeilingRejectedWitness ==
    /\ pc = "spawned"
    /\ tc.name = "spawn_agent"
    /\ result = Str(<<"ERROR:", "max concurrent subagents reached">>)
    /\ Lookup(agents, tc.arguments["task_id"]) = {}
    /\ RunningCount(agents) = MAX_SUBAGENTS
    /\ LiveWorkers = MAX_SUBAGENTS

\* C16: Task ids of running tasks are unique.  A spawn_agent call naming
\* the task id of a record with status running returns a text starting
\* with ERROR:, starts no worker and leaves every record as it was; and at
\* no time are two live workers held for one task id: the records have
\* distinct task ids and every live worker is the process of one record.
SpawnRunningRejected ==
    /\ [][(/\ pc = "idle" /\ pc' = "spawned"
            /\ \E i \in DOMAIN agents :
                    /\ agents[i].task_id = Get(tc'.arguments, "task_id", "")
                    /\ agents[i].status = "running")
           => /\ result'.str /\ IsError(result'.text)
              /\ workers' = workers
              /\ agents' = agents
         ]_vars
    /\ [](/\ \A i, j \in DOMAIN agents :
                agents[i].task_id = agents[j].task_id => i = j
          /\ \A w \in DOMAIN workers :
                is_alive(workers[w]) =>
                    Cardinality({i \in DOMAIN agents : agents[i].process = w}) = 1)

\* witness of C16: below the ceiling, a spawn naming a running task has
\* just been rejected, the task's worker still alive
SpawnRunningRejectedWitness ==
    /\ pc = "spawned"
    /\ tc.name = "spawn_agent"
    /\ RunningCount(agents) < MAX_SUBAGENTS
    /\ \E i \in DOMAIN agents :
        /\ agents[i].task_id = tc.arguments["task_id"]
        /\ agents[i].status = "running"
        /\ is_alive(workers[agents[i].process])
        /\ result = Str(<<"ERROR:", "agent", agents[i].task_id, "is already running">>)
    /\ Len(workers) = 1

\* C17: Poll classifies an exited worker.  When check_agents finds the
\* worker of a running task no longer alive, it marks the task completed if
\* the worker exited normally and failed if it exited abnormally.
PollMarksExit ==
    [][(pc = "idle" /\ pc' = "polled") =>
            \A i \in DOMAIN agents :
                (agents[i].status = "running" /\ ~is_alive(workers[agents[i].process]))
                => agents'[i].status =
                     (IF workers[agents[i].process] = "exited"
                      THEN "completed" ELSE "failed")
      ]_vars

\* C18: Terminal tasks stay visible and free their slot.  Every record
\* with status completed, failed or timed_out is listed with that status in
\* the summary of the next check_agents; and a spawn_agent call with a
\* prompt and a fresh task id, made while fewer than MAX_SUBAGENTS records
\* are running, is accepted whatever the number of terminal records.
TerminalVisibleNotCounted ==
    [][/\ (pc = "idle" /\ pc' = "polled") =>
            /\ Len(summary') = Len(agents)
            /\ \A i \in DOMAIN agents :
                  agents[i].status \in {"completed", "failed", "timed_out"} =>
                      summary'[i] = <<agents[i].task_id, agents[i].status>>
       /\ (/\ pc = "idle" /\ pc' = "spawned"
           /\ Cardinality({i \in DOMAIN agents : agents[i].status = "running"})
                  < MAX_SUBAGENTS
           /\ Get(tc'.arguments, "task_id", "") # ""
           /\ Get(tc'.arguments, "prompt", "") # ""
           /\ \A i \in DOMAIN agents : agents[i].task_id # tc'.arguments["task_id"])
          => /\ result' = Str(<<"OK:", "Subagent", tc'.arguments["task_id"], "spawned">>)
             /\ Len(workers') = Len(workers) + 1
             /\ is_alive(workers'[Len(workers')])
             /\ Len(agents') = Len(agents) + 1
             /\ agents'[Len(agents')].status = "running"
      ]_vars

\* witness of C18: with MAX_SUBAGENTS - 1 running records and a terminal
\* one, a spawn naming a fresh task id has just been accepted
TerminalVisibleNotCountedWitness ==
    /\ pc = "spawned"
    /\ result = Str(<<"OK:", "Subagent", tc.arguments["task_id"], "spawned">>)
    /\ Len(agents) = MAX_SUBAGENTS + 1
    /\ agents[Len(agents)].task_id = tc.arguments["task_id"]
    /\ RunningCount(agents) = MAX_SUBAGENTS
    /\ \E i \in DOMAIN agents : agents[i].status \in {"completed", "timed_out"}

\* C4: the ceiling is an invariant.  After any sequence of spawns, polls,
\* worker exits and the shutdown, at most MAX_SUBAGENTS records have status
\* running and at most MAX_SUBAGENTS workers are alive.
CeilingInvariant ==
    /\ Cardinality({i \in DOMAIN agents : agents[i].status = "running"}) <= MAX_SUBAGENTS
    /\ Cardinality({w \in DOMAIN workers : workers[w] = "alive"}) <= MAX_SUBAGENTS

\* witness of C4: the ceiling is reached again after a task ended: a
\* terminal record, MAX_SUBAGENTS running records, as many live workers
CeilingInvariantWitness ==
    /\ RunningCount(agents) = MAX_SUBAGENTS
    /\ LiveWorkers = MAX_SUBAGENTS
    /\ \E i \in DOMAIN agents : agents[i].status \in {"completed", "timed_out"}

\* the running records that are over their timeout when check_agents runs
OverTime == {i \in DOMAIN agents :
                /\ agents[i].status = "running"
                /\ now - agents[i].start_time > agents[i].timeout}

\* C5 as stated: every running task over its timeout is, after the poll,
\* timed_out with a dead worker.
TimeoutEnforcementAsStated ==
    [][(pc = "idle" /\ pc' = "polled") =>
            \A i \in OverTime :
                /\ agents'[i].status = "timed_out"
                /\ ~is_alive(workers'[agents[i].process])
      ]_vars

\* C5 as amended: Timeout enforcement.  For every running task over its
\* timeout when check_agents runs, after that poll the task is no longer
\* running and its worker is not alive: the task is timed_out if its worker
\* was still alive, and completed if the worker had already exited.
TimeoutEnforcement ==
    [][(pc = "idle" /\ pc' = "polled") =>
            \A i \in OverTime :
                /\ ~is_alive(workers'[agents[i].process])
                /\ agents'[i].status =
                     (IF is_alive(workers[agents[i].process])
                      THEN "timed_out" ELSE "completed")
      ]_vars

\* witness of C5: a poll has just terminated a worker that was over time
TimeoutEnforcementWitness ==
    /\ pc = "polled"
    /\ \E i \in DOMAIN agents :
        /\ agents[i].status = "timed_out"
        /\ workers[agents[i].process] = "terminated"
        /\ now - agents[i].start_time > agents[i].timeout
        /\ summary # <<>> /\ summary[i] = <<agents[i].task_id, "TIMED OUT">>

\* the entries seen so far: those still in the inbox and those returned by
\* a drain (the list of a drain in progress counts once it has cleared)
Observed ==
    inbox \o Flatten(drained)
          \o (IF pc = "drain_release" THEN messages ELSE <<>>)

\* occurrences, among the observed entries, of the message of request r
Seen(r) == Len(SelectSeq(Observed, LAMBDA e : e.message = MsgTexts[r]))

\* C28: PostInbox validation.  A POST /inbox whose body has no message or
\* an empty one is answered 400 and leaves the inbox unchanged; one with a
\* non-empty message is taken up, appends exactly one entry {message,
\* source} (source "unknown" when none was sent) and is answered 200.
PostInboxValidation ==
    [][/\ \A q \in net :
            (q \notin net' /\ q.method = "POST" /\ q.path = "/inbox" /\ q.json) =>
                IF "message" \notin DOMAIN q.data \/ q.data["message"] = ""
                THEN /\ resp'[q.id] = 400
                     /\ inbox' = inbox
                     /\ srv_pc' = "idle"
                ELSE /\ resp'[q.id] = 0
                     /\ inbox' = inbox
                     /\ srv_pc' = "post_acquire" /\ srv_req' = q
       /\ (srv_pc \in {"post_acquire", "post_release", "post_respond"}
            /\ srv_pc' # srv_pc) => inbox' = inbox
       /\ (srv_pc = "post_append" /\ srv_pc' # srv_pc) =>
            /\ Len(inbox') = Len(inbox) + 1
            /\ SubSeq(inbox', 1, Len(inbox)) = inbox
            /\ inbox'[Len(inbox')] =
                 [message |-> srv_req.data["message"],
                  source |-> IF "source" \in DOMAIN srv_req.data
                             THEN srv_req.data["source"] ELSE "unknown"]
       /\ (srv_pc = "post_respond" /\ srv_pc' # srv_pc) =>
            (resp'[srv_req.id] = 200 /\ srv_pc' = "idle")
      ]_vars

\* witness of C28: the first POST was refused with 400, the second, sent
\* without a source, was answered 200 and its one entry is in the inbox
PostInboxValidationWitness ==
    /\ resp[1] = 400
    /\ resp[2] = 200
    /\ inbox = <<[message |-> MsgTexts[2], source |-> "unknown"]>>
    /\ drained = <<>>
    /\ srv_pc = "idle"

\* C1: Inbox atomicity.  Whatever the interleaving of the POST /inbox
\* handlers and the drains, outside the drain's copy-then-clear step no
\* message is observed twice, and every message whose POST was answered 200
\* is observed exactly once: in the inbox or in exactly one drain's result.
InboxAtomicity ==
    pc # "drain_clear" =>
        \A r \in 1..NumPosts :
            /\ Seen(r) <= 1
            /\ resp[r] = 200 => Seen(r) = 1

\* witness of C1: every request was accepted with 200 and each of two
\* drains returned one of the messages
InboxAtomicityWitness ==
    /\ Len(drained) = 2
    /\ \A r \in 1..NumPosts : resp[r] = 200
    /\ Len(drained[1]) = 1
    /\ Len(drained[2]) = NumPosts - 1

----------------------------------------------------------------------------
\* Epoch persistence: load_galla, save_galla

\* a text file's content is a sequence of characters
Digits == <<"0", "1", "2", "3", "4", "5", "6", "7", "8", "9">>
Whitespace == {" ", "\n"}
DigitValue(c) == (CHOOSE d \in DOMAIN Digits : Digits[d] = c) - 1

\* str(n) of an int n >= 0: its decimal digits
RECURSIVE str(_)
str(n) == IF n < 10 THEN <<Digits[n + 1]>> ELSE str(n \div 10) \o <<Digits[(n % 10) + 1]>>

\* s.strip(): leading and trailing whitespace removed
RECURSIVE lstrip(_)
lstrip(s) == IF s # <<>> /\ Head(s) \in Whitespace THEN lstrip(Tail(s)) ELSE s
RECURSIVE rstrip(_)
rstrip(s) ==
    IF s # <<>> /\ s[Len(s)] \in Whitespace THEN rstrip(SubSeq(s, 1, Len(s) - 1)) ELSE s
strip(s) == rstrip(lstrip(s))

\* the value of a sequence of digits
RECURSIVE DigitsValue(_)
DigitsValue(s) ==
    IF s = <<>> THEN 0
    ELSE 10 * DigitsValue(SubSeq(s, 1, Len(s) - 1)) + DigitValue(s[Len(s)])

\* int(s) raises ValueError unless s is an optional sign and then digits
IsIntLiteral(s) ==
    LET body == IF s # <<>> /\ Head(s) \in {"-", "+"} THEN Tail(s) ELSE s
    IN  /\ body # <<>>
        /\ \A i \in DOMAIN body : \E d \in DOMAIN Digits : Digits[d] = body[i]
\* int(s) of such an s
int(s) ==
    IF Head(s) = "-" THEN 0 - DigitsValue(Tail(s))
    ELSE IF Head(s) = "+" THEN DigitsValue(Tail(s))
    ELSE DigitsValue(s)

\* lines 729-736: load_galla() over the files fs
load_galla(fs) ==
    IF ~Exists(fs, ".galla") THEN 0
    ELSE IF ~IsIntLiteral(strip(fs[".galla"])) THEN 0
    ELSE int(strip(fs[".galla"]))

save_galla_previous(fs, n, outcome) ==
    IF outcome = "ok" THEN WriteFile(fs, ".galla", str(n - 1)) ELSE fs
\* lines 739-746: the files after save_galla(n); a failure is swallowed
save_galla(fs, n, outcome) ==
    IF outcome = "ok" THEN WriteFile(fs, ".galla", str(n))
    ELSE IF outcome = "write_fails" THEN WriteFile(fs, ".galla", <<>>)
    ELSE fs

resume_galla_from_zero(saved, fs) ==
    IF saved >= 0 /\ Exists(fs, ".galla") THEN saved
    ELSE IF Exists(fs, "main.py") THEN 1
    ELSE 0
\* lines 1043-1057: the epoch live() resumes at
resume_galla(saved, fs) ==
    IF saved > 0 THEN saved
    ELSE IF Exists(fs, "main.py") THEN 1
    ELSE 0

----------------------------------------------------------------------------
\* The life loop: live()

\* the processes that may be started, and the epochs they may begin
MaxBoots == 2
MaxEpochs == 2

\* line 877
PLAN_INSTRUCTIONS == <<"__PROMPT_PLAN__">>
\* lines 880-881
birth_prompt == <<"__PROMPT_BIRTH__">>
\* line 1004: the text wakeup_prompt returns
wakeup_text == <<"__PROMPT_WAKEUP__">>
\* line 1102
PLAN_ERRORS == {"couldn't reach the kernel", "tool loop limit"}
\* line 1109
FALLBACK_PLAN ==
    <<"1. Check on human messages and respond if needed.",
      "2. Ensure my app is healthy.", "3. Make one small improvement.">>
\* line 1119
EXECUTE_IT == <<"Good plan. Now execute it. Use your tools.">>

\* str.lower(), word by word
lower(w) ==
    CASE w = "I" -> "i"
      [] w = "I hit my" -> "i hit my"
      [] w = ". Pausing to avoid runaway." -> ". pausing to avoid runaway."
      [] OTHER -> w

plan_failed_if_empty(text) == text = <<>>
plan_failed_if_sentinel(text) ==
    \E e \in PLAN_ERRORS : \E i \in DOMAIN text : lower(text[i]) = e
\* line 1103: not plan or any(e in (plan or "").lower() for e in _PLAN_ERRORS)
plan_is_failed(text) ==
    \/ text = <<>>
    \/ \E e \in PLAN_ERRORS : \E i \in DOMAIN text : lower(text[i]) = e

\* lines 1116-1120
exec_messages(p, pl) ==
    <<[role |-> "user", content |-> p],
      [role |-> "assistant", content |-> pl],
      [role |-> "user", content |-> EXECUTE_IT]>>

\* how the reasoning service and the world behave during one think_and_act
\* call of the life loop
LifeScript(calls, n, then, w) == [service |-> [tool_calls |-> calls, rounds |-> n, then |-> then], world |-> w]
LifeScripts ==
    { LifeScript(<<>>, 0, "unreachable", Calm),
      LifeScript(<<>>, 0, "final", Calm),
      LifeScript(<<>>, 0, "bare", Calm),
      LifeScript(<<>>, 0, "empty", Calm),
      LifeScript(<<ToolCall(1, "write", [path |-> "main.py", content |-> <<"app">>])>>,
                 1, "final", Calm),
      LifeScript(<<ToolCall(1, "restart", NoData)>>, 1, "final", Calm),
      LifeScript(<<ToolCall(1, "restart", NoData)>>, 1, "final",
                 [Calm EXCEPT !.restart = "unreachable"]),
      LifeScript(<<ToolCall(1, "read", [path |-> "main.py"])>>, Forever, "final", Calm) }

\* the reasoning service and the world take up a behaviour for the
\* think_and_act call that starts
script_chosen(scripts) ==
    \E sc \in scripts : service' = sc.service /\ world' = sc.world
\* the scripts of the birth and execute phases: the rounds end
ActScripts == {sc \in LifeScripts : sc.service.rounds # Forever}

\* the process is started: the module is loaded (lines 38-46) and live()
\* runs up to the life loop (lines 1011-1062)
Boot ==
    /\ pc \in Off
    /\ boots < MaxBoots
    /\ boots' = boots + 1
    /\ saved_galla' = load_galla(files)
    /\ galla' = resume_galla(saved_galla', files)
    /\ heartbeat' = now
    /\ phase' = "booting"
    /\ inbox' = <<>> /\ inbox_lock' = Free /\ messages' = <<>>
    /\ agents' = <<>> /\ summary' = <<>>
    /\ forget_loop
    /\ prompt' = <<>> /\ plan' = <<>> /\ plan_failed' = FALSE
    /\ stack' = <<"live_loop">>
    /\ crashed' = FALSE
    /\ UNCHANGED <<files, drained, workers, now, posted, epochs, polls, persisted, intact,
                   completed, exceptLife>>

\* lines 1064-1071: an epoch begins
live_awake ==
    /\ pc = "live_loop"
    /\ alive
    /\ epochs < MaxEpochs
    /\ epochs' = epochs + 1
    /\ heartbeat' = now
    /\ phase' = "thinking"
    /\ Call("drain_acquire", "live_drained")
    /\ crashed' = FALSE
    /\ UNCHANGED <<inbox, inbox_lock, messages, drained, galla, now, agentVars,
                   callVars, loopVars, saved_galla, prompt, plan, plan_failed, posted,
                   polls, boots, persisted, intact, completed, exceptLife>>

\* lines 609-621: what the kernel's timeline holds after post_galla(plan);
\* a request that fails is logged and nothing is recorded
post_galla(payload) == IF kernel_up THEN payload ELSE posted

best_effort_raises(k) == IF kernel_up THEN k ELSE "live_except"
\* lines 569-621, 660-680: remember, set_phase, commit, post_galla, log and
\* the chat calls catch the exception of a failed request, so that their
\* caller continues at k whether the kernel answers or not
best_effort(k) == k

\* the kernel stops or starts answering the best-effort requests
KernelFlips ==
    /\ pc \notin Off
    /\ kernel_up' = ~kernel_up
    /\ UNCHANGED <<inboxVars, stateVars, clockVars, healthVars, agentVars, callVars,
                   loopVars, subVars, lockVars, bootVars, stack, saved_galla, prompt, plan, plan_failed,
                   posted, epochs, polls, boots, persisted, intact, completed, crashed>>

\* lines 1076-1089: the chat is read; the birth epoch has no plan phase
live_birth ==
    /\ pc = "live_drained"
    /\ galla = 0
    /\ posted' = post_galla(<<"(birth - no planning phase)">>)
    /\ script_chosen(ActScripts)
    /\ think_and_act(<<[role |-> "user", content |-> birth_prompt]>>, TOOLS, "live_acted")
    /\ UNCHANGED <<files, inbox, inbox_lock, messages, drained, heartbeat, phase, galla,
                   now, agentVars, callVars, saved_galla, prompt, plan, plan_failed,
                   epochs, polls, boots, persisted, intact, completed, crashed, exceptLife>>

live_plan_without_poll ==
    /\ pc = "live_drained"
    /\ galla # 0
    /\ phase' = "planning"
    /\ prompt' = wakeup_text
    /\ script_chosen(LifeScripts)
    /\ think_and_act(<<[role |-> "user", content |-> prompt' \o PLAN_INSTRUCTIONS]>>,
                     PLAN_TOOLS, "live_planned")
    /\ UNCHANGED <<files, inbox, inbox_lock, messages, drained, heartbeat, galla, now,
                   agentVars, callVars, saved_galla, plan, plan_failed, posted, epochs,
                   polls, boots, persisted, intact, completed, crashed, exceptLife>>
\* lines 1092-1099: the plan phase; wakeup_prompt polls the subagents, line 976
live_plan ==
    /\ pc = "live_drained"
    /\ galla # 0
    /\ phase' = "planning"
    /\ check_agents
    /\ polls' = polls + 1
    /\ prompt' = wakeup_text
    /\ script_chosen(LifeScripts)
    /\ think_and_act(<<[role |-> "user", content |-> prompt' \o PLAN_INSTRUCTIONS]>>,
                     PLAN_TOOLS, "live_planned")
    /\ UNCHANGED <<files, inbox, inbox_lock, messages, drained, heartbeat, galla, now,
                   callVars, saved_galla, plan, plan_failed, posted, epochs, boots,
                   persisted, intact, completed, crashed, exceptLife>>

\* lines 1101-1124: the plan is checked and the execute phase starts
live_execute ==
    /\ pc = "live_planned"
    /\ plan_failed' = plan_is_failed(ta_ret.content)
    /\ posted' = post_galla(IF ~plan_failed' THEN ta_ret.content
                             ELSE IF ta_ret.content = <<>> THEN <<"!", "Planning failed">>
                             ELSE <<"!">> \o ta_ret.content)
    /\ plan' = IF plan_failed' THEN FALLBACK_PLAN ELSE ta_ret.content
    /\ phase' = "thinking"
    /\ script_chosen(ActScripts)
    /\ think_and_act(exec_messages(prompt, plan'), TOOLS, "live_acted")
    /\ UNCHANGED <<files, inbox, inbox_lock, messages, drained, heartbeat, galla, now,
                   agentVars, callVars, saved_galla, prompt, epochs, polls, boots, persisted,
                   intact, completed, crashed, exceptLife>>

\* lines 1125-1139: the epoch's summary is posted and its actions committed
live_acted ==
    /\ pc = "live_acted"
    /\ forget_loop
    /\ Goto(best_effort("live_increment"))
    /\ UNCHANGED <<files, inbox, inbox_lock, messages, drained, stateVars, now, agentVars,
                   saved_galla, prompt, plan, plan_failed, posted, epochs, polls, boots,
                   persisted, intact, completed, crashed, exceptLife>>

\* lines 1141-1144: an exception of the epoch's body is logged
live_except ==
    /\ pc = "live_except"
    /\ forget_loop
    /\ Goto("live_increment")
    /\ crashed' = TRUE
    /\ UNCHANGED <<files, inbox, inbox_lock, messages, drained, stateVars, now, agentVars,
                   saved_galla, prompt, plan, plan_failed, posted, epochs, polls, boots,
                   persisted, intact, completed, exceptLife>>

\* line 1146: galla += 1
live_increment ==
    /\ pc = "live_increment"
    /\ galla' = galla + 1
    /\ Goto("live_save")
    /\ UNCHANGED <<files, inbox, inbox_lock, messages, drained, heartbeat, phase, now,
                   agentVars, callVars, loopVars, saved_galla, prompt, plan, plan_failed,
                   posted, epochs, polls, boots, persisted, intact, completed, crashed, exceptLife>>

\* lines 1147-1148: save_galla(galla), then the phase is sleeping
live_save ==
    /\ pc = "live_save"
    /\ \E outcome \in WriteOutcomes :
        /\ files' = save_galla(files, galla, outcome)
        /\ persisted' = IF outcome = "ok" THEN galla ELSE persisted
        /\ intact' = IF outcome = "ok" THEN TRUE
                     ELSE IF outcome = "write_fails" THEN FALSE ELSE intact
    /\ completed' = TRUE
    /\ UNCHANGED crashed
    /\ phase' = "sleeping"
    /\ Goto(best_effort("live_sleep"))
    /\ UNCHANGED <<ta_messages, ta_tools, actions, ta_i, response, ta_k, ta_ret, service,
                   world, think_calls, inbox, inbox_lock, messages, drained, heartbeat,
                   galla, now, agentVars, callVars, saved_galla, prompt, plan,
                   plan_failed, posted, epochs, polls, boots, exceptLife>>

live_sleep_skips_drain ==
    /\ pc = "live_sleep"
    /\ now' = now + SLEEP_SECONDS
    /\ Goto("live_drained")
    /\ UNCHANGED <<inbox, inbox_lock, messages, drained, stateVars, agentVars, callVars,
                   loopVars, lifeVars, exceptLife>>
\* line 1151: time.sleep(SLEEP_SECONDS)
live_sleep ==
    /\ pc = "live_sleep"
    /\ now' = now + SLEEP_SECONDS
    /\ Goto("live_loop")
    /\ UNCHANGED <<inbox, inbox_lock, messages, drained, stateVars, agentVars, callVars,
                   loopVars, lifeVars, exceptLife>>

\* the process is killed from outside; what it held in memory is gone, and
\* galla keeps the value the process had reached
Kill ==
    /\ pc \notin Off
    /\ stack' = <<"killed">>
    /\ forget_loop
    /\ prompt' = <<>> /\ plan' = <<>> /\ plan_failed' = FALSE
    /\ inbox_lock' = Free
    /\ crashed' = FALSE
    /\ UNCHANGED <<files, inbox, messages, drained, stateVars, now, agentVars,
                   saved_galla, posted, epochs, polls, boots, persisted, intact, completed, exceptLife>>

\* the main thread's steps while the process runs
LifeStep ==
    \/ live_awake
    \/ drain_inbox_acquire
    \/ drain_inbox_copy
    \/ drain_inbox_clear
    \/ drain_inbox_return
    \/ live_birth
    \/ live_plan
    \/ live_execute
    \/ (ta_think /\ UNCHANGED exceptLoop)
    \/ (exec_read /\ UNCHANGED exceptLoop)
    \/ (exec_write /\ UNCHANGED exceptLoop)
    \/ (exec_restart /\ UNCHANGED exceptLoop)
    \/ (ta_loop_limit /\ UNCHANGED exceptLoop)
    \/ live_acted
    \/ live_except
    \/ live_increment
    \/ live_save
    \/ live_sleep

NextLife ==
    \/ Boot
    \/ Kill
    \/ Interrupted
    \/ LifeStep

\* what .galla and main.py may hold when the first process starts
LifeFiles ==
    LET gs == {<<>>, <<"x">>, <<"0">>, <<"9">>, <<" ", "1", "0", "\n">>, <<"-", "3">>}
    IN  {NoFiles, [p \in {"main.py"} |-> <<"app">>]}
        \cup {[p \in {".galla"} |-> g] : g \in gs}
        \cup {[p \in {".galla", "main.py"} |-> IF p = ".galla" THEN g ELSE <<"app">>] :
                g \in gs}

InitSpecLife(fss, secs) ==
    /\ InitInbox(0) /\ InitClock(0) /\ InitState(0) /\ InitHealth(0)
    /\ InitAgents(<<>>)
    /\ \E fs \in fss : InitLoop(fs, secs)
    /\ InitLife(0) /\ InitWorker("none", {"t1"}, {NoService})
    /\ InitBirth("off")
    /\ stack = <<"off">>

SpecLife == InitSpecLife(LifeFiles, 0) /\ [][NextLife]_vars

\* a fresh installation whose running process keeps taking steps: every
\* sleep ends and every request to the kernel and every command times out
SpecLifeFair == InitSpecLife({NoFiles}, 0) /\ [][NextLife]_vars /\ WF_vars(LifeStep)

\* one process of a fresh installation from the start of its life loop,
\* with a kernel whose best-effort endpoints come and go
NextKernel ==
    \/ LifeStep
    \/ KernelFlips

SpecKernel ==
    /\ InitInbox(0) /\ InitClock(0) /\ InitState(0) /\ InitHealth(0)
    /\ InitAgents(<<>>) /\ InitLoop(NoFiles, 0)
    /\ InitLife(0) /\ InitWorker("none", {"t1"}, {NoService})
    /\ InitBirth("off")
    /\ stack = <<"live_loop">>
    /\ [][NextKernel]_vars

\* one process of a fresh installation from the start of its life loop,
\* with a client that posts to /inbox
NextEpoch ==
    \/ LifeStep
    \/ (pc \notin Off /\ SendPost(1))
    \/ (pc \notin Off /\ do_POST)
    \/ do_POST_acquire
    \/ do_POST_append
    \/ do_POST_release
    \/ do_POST_respond

SpecEpoch ==
    /\ InitInbox(1) /\ InitClock(0) /\ InitState(0) /\ InitHealth(1)
    /\ InitAgents(<<>>) /\ InitLoop(NoFiles, 0)
    /\ InitLife(0) /\ InitWorker("none", {"t1"}, {NoService})
    /\ InitBirth("off")
    /\ stack = <<"live_loop">>
    /\ [][NextEpoch]_vars

\* how far the main thread with stack st is in its epoch: 0 between epochs,
\* 1 in drain_inbox, 2 drained, 3 in the plan call, 4 planned, 5 in the
\* birth or execute call, 6 after it, 7 at the increment, 8 at the save,
\* 9 at the sleep, 10 with the process gone
Stage(st) ==
    LET top == Head(st)
        k == IF Len(st) > 1 THEN st[2] ELSE ""
    IN  IF top = "live_loop" THEN 0
        ELSE IF top \in {"drain_acquire", "drain_copy", "drain_clear", "drain_release"}
        THEN 1
        ELSE IF top = "live_drained" THEN 2
        ELSE IF top \in {"ta_think", "ta_exec"} /\ k = "live_planned" THEN 3
        ELSE IF top = "live_planned" THEN 4
        ELSE IF top \in {"ta_think", "ta_exec"} /\ k = "live_acted" THEN 5
        ELSE IF top \in {"live_acted", "live_except"} THEN 6
        ELSE IF top = "live_increment" THEN 7
        ELSE IF top = "live_save" THEN 8
        ELSE IF top = "live_sleep" THEN 9
        ELSE 10

\* C25: Order within an epoch.  The main thread moves through an epoch in
\* one direction only: drain, prompt, plan call, execute call, increment,
\* save, sleep, and from the sleep to the next epoch.  The inbox is drained
\* during the drain only, the prompt is built only right after it, think
\* calls are made only in the plan and execute calls, the counter is
\* incremented and .galla written only after them, and the clock of the
\* sleep advances last.  Each epoch drains the inbox exactly once, and
\* outside the drain the inbox only grows, so that a message posted after
\* an epoch's drain stays in the inbox until a later epoch's drain.
EpochOrder ==
    /\ [][\/ Stage(stack') >= Stage(stack)
          \/ (Stage(stack) = 9 /\ Stage(stack') = 0)]_vars
    /\ [][/\ drained' # drained =>
                (Stage(stack) = 1 /\ drained' = Append(drained, messages))
          /\ prompt' # prompt => Stage(stack) = 2
          /\ think_calls' > think_calls => Stage(stack) \in {3, 5}
          /\ galla' # galla => (Stage(stack) = 7 /\ galla' = galla + 1)
          /\ (/\ ".galla" \in DOMAIN files'
              /\ (".galla" \in DOMAIN files => files'[".galla"] # files[".galla"]))
                => Stage(stack) = 8
          /\ now' # now => (Stage(stack) = 9 /\ now' = now + SLEEP_SECONDS)
          /\ Stage(stack) # 1 =>
                \/ inbox' = inbox
                \/ (Len(inbox') = Len(inbox) + 1
                    /\ SubSeq(inbox', 1, Len(inbox)) = inbox)
         ]_vars
    /\ [](Len(drained) = IF Stage(stack) = 1 THEN epochs - 1 ELSE epochs)

\* a message accepted after the first epoch's drain, which returned
\* nothing, has been handed out by the second epoch's drain
EpochOrderWitness ==
    /\ epochs = 2
    /\ pc = "live_sleep"
    /\ resp[1] = 200
    /\ drained = << <<>>, <<[message |-> MsgTexts[1], source |-> "kernel"]>> >>
    /\ inbox = <<>>

\* C26 as stated: by the time an epoch's body is over, check_agents has
\* been called once in every epoch begun, the birth epoch included.
PollEveryEpochAsStated ==
    [](Stage(stack) \in 7..9 => polls = epochs)

\* C26 as amended: Poll once per planned epoch.  check_agents is called
\* exactly once in every epoch that has a plan phase, when the plan phase
\* starts right after the drain, and it is not called in the birth epoch
\* (epoch 0), which has no plan phase: a process of a fresh installation
\* that has begun n epochs has polled n - 1 times once the n-th epoch is
\* past its drain.  The step that polls replaces every record by what
\* check_agents makes of it and reports one line per record.
PollEveryPlannedEpoch ==
    /\ [](polls = IF epochs = 0 THEN 0
                  ELSE IF Stage(stack) \in {1, 2}
                  THEN (IF epochs > 1 THEN epochs - 2 ELSE 0)
                  ELSE epochs - 1)
    /\ [][polls' # polls =>
            /\ pc = "live_drained" /\ galla > 0
            /\ polls' = polls + 1
            /\ agents' = [i \in DOMAIN agents |-> check_one(agents[i])]
            /\ summary' = [i \in DOMAIN agents |-> check_line(agents[i])]]_vars
    /\ [][(pc = "live_drained" /\ stack' # stack) => (polls' # polls <=> galla > 0)]_vars

\* the process has ended its second epoch, the first with a plan phase,
\* and has polled once
PollEveryPlannedEpochWitness ==
    /\ epochs = 2
    /\ galla = 2
    /\ polls = 1
    /\ pc = "live_sleep"

\* C27: Best-effort calls.  Whether or not the kernel answers the
\* best-effort requests, every step of the life loop leads where it leads
\* when they succeed: the drain follows the wake-up, the think calls
\* follow the drain and the plan, the increment follows the epoch's body,
\* the save the increment, the sleep the save and the next epoch the
\* sleep.  The epoch's except clause is entered only by an exception
\* raised in the tool-calling loop; a failed timeline post records
\* nothing.
BestEffortNeverAborts ==
    /\ [][(pc' = "live_except" /\ stack' # stack)
            => (pc = "ta_exec" /\ ta_ret'.kind = "raised")]_vars
    /\ [][stack' # stack =>
            /\ pc = "live_loop" => (pc' = "drain_acquire" /\ heartbeat' = now)
            /\ pc = "live_drained" =>
                    (pc' = "ta_think" /\ ta_ret'.kind = "running" /\ think_calls' = 0)
            /\ pc = "live_planned" =>
                    (pc' = "ta_think" /\ ta_ret'.kind = "running" /\ think_calls' = 0)
            /\ pc = "live_acted" => pc' = "live_increment"
            /\ pc = "live_increment" => (pc' = "live_save" /\ galla' = galla + 1)
            /\ pc = "live_save" => (pc' = "live_sleep" /\ phase' = "sleeping")
            /\ pc = "live_sleep" => (pc' = "live_loop" /\ now' = now + SLEEP_SECONDS)
         ]_vars
    /\ [][~kernel_up => posted' = posted]_vars

\* two epochs have run to their sleep without an exception while every
\* timeline post failed, and the kernel is still not answering
BestEffortNeverAbortsWitness ==
    /\ ~kernel_up
    /\ epochs = 2
    /\ pc = "live_sleep"
    /\ ~crashed /\ completed
    /\ galla = 2
    /\ posted = <<>>

\* C13: Exceptions of an epoch's body.  An exception raised in the body of
\* an epoch is caught by the life loop: the counter is incremented and
\* persisted, the phase becomes sleeping, the next epoch starts after the
\* sleep; the process does not exit and alive stays true.  (Steps by which
\* the process is killed or interrupted from outside are left aside.)
ExceptionCaught ==
    [][(pc' \notin {"killed", "interrupted"}) =>
        /\ (pc = "ta_exec" /\ ta_ret'.kind = "raised")
              => pc' = "live_except"
        /\ pc = "live_except"
              => (pc' = "live_increment" /\ alive')
        /\ (crashed /\ pc = "live_increment")
              => (pc' = "live_save" /\ galla' = galla + 1 /\ alive')
        /\ (crashed /\ pc = "live_save")
              => /\ pc' = "live_sleep"
                 /\ load_galla(files') = galla
                 /\ phase' = "sleeping"
                 /\ alive'
        /\ (crashed /\ pc = "live_sleep")
              => (pc' = "live_loop" /\ now' = now + SLEEP_SECONDS /\ alive')
      ]_vars

\* line 561: requests.post(..., timeout=300)
THINK_TIMEOUT == 300

\* a fresh installation against a reasoning service that takes the whole
\* timeout over every think call
SpecBeat == InitSpecLife({NoFiles}, THINK_TIMEOUT) /\ [][NextLife]_vars

\* C11: Heartbeat freshness.  While the process runs with alive true, the
\* time since the last heartbeat never exceeds SLEEP_SECONDS + 600 + 60,
\* each think call taking at most 300 seconds.
HeartbeatFresh ==
    (pc \notin Off /\ alive) => now - heartbeat <= SLEEP_SECONDS + 600 + 60

\* a process starts and reaches the life loop
BootStep == pc \in Off /\ pc' = "live_loop"

\* C15: Boot resume value.  A boot resumes at the persisted counter when
\* .galla holds a number greater than zero; otherwise, .galla being absent,
\* unparsable or not positive, at 1 when main.py exists and at 0 when not.
BootResumeValue ==
    [][BootStep =>
        LET text == IF Exists(files, ".galla") THEN strip(files[".galla"]) ELSE <<>>
            positive == IsIntLiteral(text) /\ int(text) > 0
        IN  galla' = (IF positive THEN int(text)
                      ELSE IF Exists(files, "main.py") THEN 1 ELSE 0)
      ]_vars

\* witness of C15: the first process found an unparsable .galla next to
\* main.py and stands at the life loop with galla = 1
BootResumeValueWitness ==
    /\ pc = "live_loop"
    /\ boots = 1 /\ epochs = 0
    /\ Exists(files, ".galla") /\ files[".galla"] = <<"x">>
    /\ Exists(files, "main.py")
    /\ saved_galla = 0
    /\ galla = 1

\* C6: Epoch persistence round-trip.  When a process boots while .galla
\* holds the value E that the last save_galla wrote, load_galla returns E;
\* and a boot with neither .galla nor main.py starts at epoch 0.
EpochRoundTrip ==
    [][BootStep =>
            /\ intact => saved_galla' = persisted
            /\ (~Exists(files, ".galla") /\ ~Exists(files, "main.py")) => galla' = 0
      ]_vars

\* a restarted process has read back a persisted value of two digits
EpochRoundTripWitness ==
    /\ pc = "live_loop"
    /\ boots > 1
    /\ intact
    /\ persisted > 9
    /\ saved_galla = persisted
    /\ galla = persisted

\* C7: The epoch counter never rolls back.  No step lowers the counter: not
\* a step of a running process, and not a boot, which resumes at a value
\* no lower than the one the process before it had reached.
EpochNeverRollsBack == [][galla' >= galla]_vars

\* C8: Crash-safe resume.  A boot resumes at the last value save_galla
\* persisted, and once an epoch has reached the increment-and-persist step
\* no boot starts at epoch 0.
ResumeAtPersisted ==
    [][BootStep =>
            /\ persisted > 0 => galla' = persisted
            /\ completed => galla' # 0
      ]_vars

\* C29 as stated: a plan phase that returns the loop-limit or the
\* unreachable sentinel is handled as failed and gets the fallback plan; one
\* that ends normally, its text empty or not, is not, and its text is the plan.
PlanFailureBySentinelAsStated ==
    [][(pc = "live_planned" /\ ta_ret.kind = "returned" /\ pc' \notin Off) =>
        LET text == ta_ret.content
            hung == text = <<"I", "couldn't reach the kernel", "to think.">>
                    \/ text = <<"I hit my", "tool loop limit", ". Pausing to avoid runaway.">>
        IN  /\ plan_failed' = hung
            /\ plan' = (IF hung THEN FALLBACK_PLAN ELSE text)
      ]_vars

\* C29 as amended: Plan failure detection.  A plan phase is handled as
\* failed, and the fallback plan substituted, exactly when the text it
\* returns is empty or contains one of the phrases of the two sentinels; an
\* empty plan is posted as "Planning failed", a sentinel with a warning
\* mark, and any other text is the plan and is posted as it is.
PlanFailureDetection ==
    [][(pc = "live_planned" /\ ta_ret.kind = "returned" /\ pc' \notin Off) =>
        LET text == ta_ret.content
            hung == \E i \in DOMAIN text :
                        text[i] \in {"couldn't reach the kernel", "tool loop limit"}
        IN  /\ plan_failed' = (text = <<>> \/ hung)
            /\ plan' = (IF text = <<>> \/ hung THEN FALLBACK_PLAN ELSE text)
            /\ posted' = (IF text = <<>> THEN <<"!", "Planning failed">>
                          ELSE IF hung THEN <<"!">> \o text ELSE text)
            /\ ta_messages'[2] = [role |-> "assistant", content |-> plan']
      ]_vars

\* witness of C29: a plan phase ended normally with an empty text, and the
\* execute phase runs on the fallback plan
PlanFailureDetectionWitness ==
    /\ pc = "ta_think"
    /\ stack[2] = "live_acted"
    /\ galla > 0
    /\ plan_failed
    /\ posted = <<"!", "Planning failed">>
    /\ plan = FALLBACK_PLAN
    /\ ta_messages[2].content = FALLBACK_PLAN

\* the plan phase of an epoch > 0 has ended with the service unreachable
PlanUnreachable ==
    /\ pc = "live_planned"
    /\ galla > 0
    /\ ta_ret.kind = "returned"
    /\ ta_ret.content = UNREACHABLE

\* C9: Plan-failure fallback.  When the plan phase of an epoch > 0 ends
\* with the reasoning service unreachable, the next step of the process
\* enters the execute phase with the conversation: the situational prompt,
\* the fallback plan as the assistant turn, the go-ahead; and unless the
\* process ends, the epoch reaches the sleep with the counter incremented
\* and save_galla run.  A fresh installation plans epochs 1..MaxEpochs - 1.
PlanFallback ==
    /\ [][(PlanUnreachable /\ pc' \notin Off) =>
            /\ stack' = <<"ta_think", "live_acted">>
            /\ ta_messages' =
                    <<[role |-> "user", content |-> wakeup_text],
                      [role |-> "assistant", content |-> FALLBACK_PLAN],
                      [role |-> "user", content |-> EXECUTE_IT]>>
            /\ think_calls' = 0
            /\ galla' = galla
         ]_vars
    /\ [](PlanUnreachable => galla \in 1..(MaxEpochs - 1))
    /\ \A g \in 1..(MaxEpochs - 1) :
            (PlanUnreachable /\ galla = g) ~>
                \/ pc = "live_sleep" /\ galla = g + 1 /\ phase = "sleeping" /\ completed
                \/ pc \in Off

\* an epoch whose plan phase found the service unreachable is asleep, its
\* execute phase having run on the fallback plan
PlanFallbackWitness ==
    /\ pc = "live_sleep"
    /\ plan_failed
    /\ posted = <<"!">> \o UNREACHABLE
    /\ plan = FALLBACK_PLAN
    /\ galla > 1

----------------------------------------------------------------------------
\* The tool-calling loop on its own: one think_and_act call, against every
\* behaviour of the reasoning service drawn from ToolBatches

\* the caller calls think_and_act(messages, tools=tools)
Invoke ==
    /\ pc = "start"
    /\ \E calls \in ToolBatches, n \in {0, 1, 2, Forever},
          then \in {"unreachable", "final", "done_with_tools", "tools_no_flag", "bare",
                    "empty"},
          tools \in {TOOLS, PLAN_TOOLS}, w \in Worlds :
        /\ Script(calls, n, then, w)
        /\ service' = [tool_calls |-> calls, rounds |-> n, then |-> then]
        /\ world' = w
        /\ think_and_act(<<[role |-> "user", content |-> <<"prompt">>]>>, tools, "done")
    /\ UNCHANGED <<files, agentVars, callVars, now, subprocesses, latency, exceptLoop>>

NextLoop ==
    \/ Invoke
    \/ (ta_think /\ UNCHANGED exceptLoop)
    \/ (exec_read /\ UNCHANGED exceptLoop)
    \/ (exec_write /\ UNCHANGED exceptLoop)
    \/ (exec_execute /\ UNCHANGED exceptLoop)
    \/ (exec_restart /\ UNCHANGED exceptLoop)
    \/ (exec_spawn_agent /\ UNCHANGED exceptLoop)
    \/ (exec_unknown /\ UNCHANGED exceptLoop)
    \/ (ta_loop_limit /\ UNCHANGED exceptLoop)

SpecLoop ==
    /\ InitInbox(NumGets) /\ InitClock(0) /\ InitState(0) /\ InitHealth(NumGets)
    /\ InitAgents(<<>>)
    /\ \E fs \in {NoFiles, [p \in {"main.py"} |-> <<"app">>]} : InitLoop(fs, 0)
    /\ InitLife(0) /\ InitWorker("none", {"t1"}, {NoService})
    /\ InitBirth("off")
    /\ stack = <<"start">>
    /\ [][NextLoop]_vars

\* what the reasoning service does for a worker: the tool calls it asks
\* for, for how many rounds, and then what
WorkerScripts ==
    {s \in [tool_calls : ToolBatches, rounds : {0, 1, 2, sub_max_loops},
             then : {"unreachable", "final", "done_with_tools", "long", "empty",
                     "bare"}] :
        s.rounds = sub_max_loops => s.then = "final"}

NextWorker ==
    \/ sub_think
    \/ sub_tool
    \/ sub_loop_limit
    \/ sub_terminated

\* one worker process from the start of subagent_runner to its end, the
\* primary process idle
SpecWorker ==
    /\ InitInbox(NumPosts) /\ InitClock(0) /\ InitState(0) /\ InitHealth(NumPosts)
    /\ InitAgents(<<>>)
    /\ \E fs \in {NoFiles, [p \in {"main.py"} |-> <<"app">>]} : InitLoop(fs, 0)
    /\ InitLife(0) /\ InitWorker("think", {"t1", "t2"}, WorkerScripts)
    /\ InitBirth("off")
    /\ stack = <<"idle">>
    /\ [][NextWorker]_vars

\* C23: No restart and no spawn from a worker.  Whatever the service asks
\* for, a tool call named restart or spawn_agent that a worker executes is
\* answered by one tool_result turn with the call's id whose text starts
\* with ERROR: and whose is_error is true; the worker goes on with its
\* loop, no task record and no process is created, and the primary
\* process is left as it was.
WorkerCannotRestartOrSpawn ==
    [][(/\ sub_pc = "exec" /\ sub_pc' # "terminated"
        /\ sub_response.tool_calls[sub_k].name \in {"restart", "spawn_agent"})
       => /\ sub_pc' \in {"exec", "think"}
          /\ agents' = agents /\ workers' = workers
          /\ stack' = stack /\ alive' = alive
          /\ Len(sub_messages') = Len(sub_messages) + 1
          /\ LET turn == sub_messages'[Len(sub_messages')]
             IN  /\ turn.role = "tool_result"
                 /\ turn.tool_call_id = sub_response.tool_calls[sub_k].id
                 /\ turn.content # <<>> /\ Head(turn.content) = "ERROR:"
                 /\ turn.is_error = TRUE
      ]_vars

\* a worker has ended its loop after a round in which the service asked
\* for spawn_agent and then restart: both calls were answered with errors
WorkerCannotRestartOrSpawnWitness ==
    /\ sub_pc = "returned"
    /\ Len(sub_actions) = 2
    /\ sub_actions[1].tool = "spawn_agent" /\ sub_actions[2].tool = "restart"
    /\ sub_messages[3].is_error /\ sub_messages[4].is_error
    /\ agents = <<>> /\ workers = <<>>

\* C24: The worker's result post.  A worker that has left its loop (the
\* service answered without tool calls or with done, a think call failed,
\* or 30 rounds were used up) has posted exactly one body to /inbox, and a
\* worker that has not has posted none; the body's source is
\* subagent:<task_id>, its message is not empty and has at most 2000
\* characters: the first 2000 characters of the service's final content,
\* "(no output)" when that content is empty, or the loop-limit text.  No
\* step of the worker changes the inbox, the task records or any other
\* state of the primary process.
WorkerPostsResult ==
    /\ [](IF sub_pc = "returned" THEN Len(sub_posts) = 1 ELSE sub_posts = <<>>)
    /\ [](\A p \in DOMAIN sub_posts :
            /\ sub_posts[p].source = <<"subagent:", sub_task>>
            /\ sub_posts[p].message # <<>>
            /\ Len(sub_posts[p].message) <= RESULT_MAX)
    /\ [][sub_posts' # sub_posts =>
            LET final == /\ sub_response' # NoResponse
                         /\ sub_i < sub_max_loops
                content == IF "content" \in DOMAIN sub_response'
                           THEN sub_response'.content ELSE <<>>
            IN  sub_posts'[1].message =
                    IF ~final THEN HIT_LIMIT
                    ELSE IF content = <<>> THEN NO_OUTPUT
                    ELSE SubSeq(content, 1,
                                IF Len(content) > RESULT_MAX THEN RESULT_MAX
                                ELSE Len(content))]_vars
    /\ [][UNCHANGED <<inboxVars, stateVars, agentVars, callVars, lifeVars, stack>>]_vars

\* a worker has ended after two rounds of tool calls with a final content
\* of more than 2000 characters, of which it posted the first 2000
WorkerPostsResultWitness ==
    /\ sub_pc = "returned"
    /\ sub_i = 2
    /\ sub_service.then = "long"
    /\ Len(sub_posts) = 1
    /\ Len(sub_posts[1].message) = RESULT_MAX

----------------------------------------------------------------------------
\* The two locks: the main thread drains, sets the phase, spawns, polls and
\* shuts down while the server thread serves /health and /inbox, each
\* `with` block taken step by step

\* number of subagents spawned in a run of the two threads
MaxLockSpawns == 1
\* number of times the main thread drains the inbox in such a run
MaxLockDrains == 1

unwind_leaks(lock, who) == lock
\* an exception leaving a `with lock:` block releases the lock its thread
\* holds (lines 126, 457, 494, 522, 585)
unwind(lock, who) == IF lock = who THEN Free ELSE lock

\* what a step on _agents_lock alone leaves unchanged
exceptLocks == <<inboxVars, clockVars, healthVars, loopVars, lifeVars, subVars, bootVars>>

\* the main thread calls drain_inbox() (line 1071)
lock_drain ==
    /\ pc = "lk_idle"
    /\ Len(drained) < MaxLockDrains
    /\ Call("drain_acquire", "lk_idle")
    /\ UNCHANGED <<inboxVars, exceptInbox>>

\* lines 581-584: set_phase("thinking") stores the phase and comes to its
\* with block
set_phase_enter ==
    /\ pc = "lk_idle"
    /\ phase' = "thinking"
    /\ Goto("phase_acquire")
    /\ UNCHANGED <<heartbeat, alive, galla, agentVars, callVars, lockVars, exceptLocks>>

\* line 585: with _agents_lock
set_phase_acquire ==
    /\ pc = "phase_acquire"
    /\ CanAcquire(agents_lock)
    /\ agents_lock' = Main
    /\ Goto("phase_count")
    /\ UNCHANGED <<stateVars, agentVars, callVars, exceptLocks>>

\* lines 586-594: the running records are counted, the with block ends, the
\* phase is pushed to the kernel, whatever the kernel answers
set_phase_release ==
    /\ pc = "phase_count"
    /\ agents_lock' = Free
    /\ Goto(best_effort("lk_idle"))
    /\ UNCHANGED <<stateVars, agentVars, callVars, exceptLocks>>

\* lines 449-455: tool_spawn_agent(args) reads its arguments and, task_id
\* and prompt being there, comes to its with block (a call without them
\* returns before the lock)
spawn_enter ==
    /\ pc = "lk_idle"
    /\ Len(workers) < MaxLockSpawns
    /\ \E args \in SpawnArgs :
        /\ FirstUnused(Get(args, "task_id", ""))
        /\ spawn_verdict(args) # "required"
        /\ "timeout" \notin DOMAIN args
        /\ tc' = [id |-> 1, name |-> "spawn_agent", arguments |-> args]
        /\ result' = NoResult
    /\ Goto("spawn_acquire")
    /\ UNCHANGED <<stateVars, agentVars, lockVars, exceptLocks>>

\* line 457: with _agents_lock
spawn_acquire ==
    /\ pc = "spawn_acquire"
    /\ CanAcquire(agents_lock)
    /\ agents_lock' = Main
    /\ Goto("spawn_locked")
    /\ UNCHANGED <<stateVars, agentVars, callVars, exceptLocks>>

\* lines 458-488: the checks, the process started and recorded, the with
\* block left by a return or at its end
spawn_release ==
    /\ pc = "spawn_locked"
    /\ tool_spawn_agent(tc.arguments)
    /\ result' = Str(spawn_text(tc.arguments))
    /\ agents_lock' = Free
    /\ Goto("lk_idle")
    /\ UNCHANGED <<stateVars, summary, tc, exceptLocks>>

\* line 976: wakeup_prompt calls check_agents()
check_agents_enter ==
    /\ pc = "lk_idle"
    /\ Goto("check_acquire")
    /\ UNCHANGED <<stateVars, agentVars, callVars, lockVars, exceptLocks>>

\* line 494: with _agents_lock
check_agents_acquire ==
    /\ pc = "check_acquire"
    /\ CanAcquire(agents_lock)
    /\ agents_lock' = Main
    /\ Goto("check_locked")
    /\ UNCHANGED <<stateVars, agentVars, callVars, exceptLocks>>

\* lines 495-517: the records are checked, join and log returning within
\* their timeouts, and the with block ends
check_agents_release ==
    /\ pc = "check_locked"
    /\ check_agents
    /\ agents_lock' = Free
    /\ Goto("lk_idle")
    /\ UNCHANGED <<stateVars, callVars, exceptLocks>>

\* lines 1159-1166: a KeyboardInterrupt or another exception ends live()
\* wherever the main thread is, leaving the with block it is in, and the
\* handler calls cleanup_agents()
cleanup_agents_enter ==
    /\ pc \notin {"cleanup_acquire", "cleanup_locked", "ended"}
    /\ agents_lock' = unwind(agents_lock, Main)
    /\ inbox_lock' = unwind(inbox_lock, Main)
    /\ stack' = <<"cleanup_acquire">>
    /\ UNCHANGED <<inbox, net, srv_pc, srv_req, resp, messages, drained, stateVars,
                   agentVars, callVars, clockVars, healthVars, loopVars, lifeVars,
                   subVars, bootVars>>

\* line 522: with _agents_lock
cleanup_agents_acquire ==
    /\ pc = "cleanup_acquire"
    /\ CanAcquire(agents_lock)
    /\ agents_lock' = Main
    /\ Goto("cleanup_locked")
    /\ UNCHANGED <<stateVars, agentVars, callVars, exceptLocks>>

\* lines 523-528: the running workers are terminated and the with block
\* ends; the main thread has nothing more to do with either lock
cleanup_agents_release ==
    /\ pc = "cleanup_locked"
    /\ cleanup_agents
    /\ agents_lock' = Free
    /\ Goto("ended")
    /\ UNCHANGED <<stateVars, summary, callVars, exceptLocks>>

\* line 77: with _agents_lock, in the handler of GET /health
do_GET_acquire ==
    /\ srv_pc = "get_respond"
    /\ CanAcquire(agents_lock)
    /\ agents_lock' = Server
    /\ srv_pc' = "get_count"
    /\ UNCHANGED <<inbox, inbox_lock, net, srv_req, resp, messages, drained, stateVars,
                   clockVars, healthVars, agentVars, callVars, loopVars, lifeVars,
                   subVars, bootVars, stack>>

\* lines 78-90: the running records are counted, the with block ends, the
\* body is built and the response sent
do_GET_release ==
    /\ srv_pc = "get_count"
    /\ agents_lock' = Free
    /\ bodies' = [bodies EXCEPT ![srv_req.id] =
                    [status |-> srv_health.status,
                     galla |-> galla,
                     alive |-> alive,
                     phase |-> phase,
                     heartbeat_age |-> now - heartbeat,
                     active_agents |-> RunningCount(agents)]]
    /\ resp' = [resp EXCEPT ![srv_req.id] = srv_health.code]
    /\ srv_pc' = "idle"
    /\ srv_req' = NoReq
    /\ srv_health' = NoHealth
    /\ UNCHANGED <<inbox, inbox_lock, net, messages, drained, stateVars, clockVars,
                   agentVars, callVars, loopVars, lifeVars, subVars, bootVars, stack>>

\* the kernel probes GET /health (request 1)
lock_probe ==
    /\ ~Sent(1)
    /\ net' = net \cup {q \in GetRequests(1) : q.path = "/health"}
    /\ UNCHANGED <<srv_pc, srv_req, resp, healthVars, exceptHealth>>

\* a worker posts its result to /inbox (request 2)
lock_post ==
    /\ ~Sent(2)
    /\ net' = net \cup {q \in PostRequests(2) :
                          /\ q.path = "/inbox" /\ q.json
                          /\ Get(q.data, "source", "") = "subagent:t1"}
    /\ UNCHANGED <<inbox, inbox_lock, srv_pc, srv_req, resp, messages, drained>>
    /\ UNCHANGED <<exceptInbox, stack>>

\* the steps of the main thread at a lock
MainAcquires ==
    \/ drain_inbox_acquire
    \/ set_phase_acquire
    \/ spawn_acquire
    \/ check_agents_acquire
    \/ cleanup_agents_acquire

\* the steps of the main thread inside a with block, up to its end
MainHolds ==
    \/ drain_inbox_copy
    \/ drain_inbox_clear
    \/ drain_inbox_return
    \/ set_phase_release
    \/ spawn_release
    \/ check_agents_release
    \/ cleanup_agents_release

\* the steps of the server thread at a lock
ServerAcquires ==
    \/ do_POST_acquire
    \/ do_GET_acquire

\* the steps of the server thread inside a with block and up to the end of
\* the request
ServerHolds ==
    \/ do_POST_append
    \/ do_POST_release
    \/ do_POST_respond
    \/ do_GET_release

NextLocks ==
    \/ lock_drain
    \/ set_phase_enter
    \/ spawn_enter
    \/ check_agents_enter
    \/ cleanup_agents_enter
    \/ MainAcquires
    \/ MainHolds
    \/ lock_probe
    \/ lock_post
    \/ do_GET
    \/ do_POST
    \/ ServerAcquires
    \/ ServerHolds

InitLocks(n) ==
    /\ InitInbox(n) /\ InitClock(0) /\ InitState(0) /\ InitHealth(n)
    /\ InitAgents(<<>>) /\ InitLoop(NoFiles, 0) /\ InitLife(0)
    /\ InitWorker("none", {"t1"}, {NoService})
    /\ InitBirth("off")
    /\ stack = <<"lk_idle">>

SpecLocks ==
    /\ InitLocks(2)
    /\ [][NextLocks]_vars

\* Both threads keep running: a thread inside a with block goes on to its
\* end (every call made there returns: join and the log request carry
\* timeouts), and a thread waiting at a lock that is free again and again
\* gets it, the other thread leaving the processor between two with blocks
\* (a request to the kernel, the sleep of the epoch, the wait for the
\* next request on the socket).
SpecLocksFair ==
    /\ SpecLocks
    /\ WF_vars(MainHolds)
    /\ WF_vars(ServerHolds)
    /\ SF_vars(MainAcquires)
    /\ SF_vars(ServerAcquires)

\* the main thread waits for, or holds, a lock
MainWaitsInbox == pc = "drain_acquire"
MainWaitsAgents ==
    pc \in {"phase_acquire", "spawn_acquire", "check_acquire", "cleanup_acquire"}
ServerWaitsInbox == srv_pc = "post_acquire"
ServerWaitsAgents == srv_pc = "get_respond"

\* C35: Lock discipline.  No thread holds _inbox_lock and _agents_lock
\* together; a thread that comes to a with block holds neither lock, so it
\* never asks for a lock it holds and never waits for one lock while
\* holding the other; and whatever the interleaving of health requests,
\* inbox posts, drains, spawns, polls, set_phase calls and the shutdown,
\* every thread waiting at a lock gets that lock.
LockDiscipline ==
    /\ [](\A t \in {Main, Server} : ~(inbox_lock = t /\ agents_lock = t))
    /\ []((MainWaitsInbox \/ MainWaitsAgents) =>
              (inbox_lock # Main /\ agents_lock # Main))
    /\ []((ServerWaitsInbox \/ ServerWaitsAgents) =>
              (inbox_lock # Server /\ agents_lock # Server))
    /\ (MainWaitsInbox ~> (inbox_lock = Main \/ pc = "cleanup_acquire"))
    /\ (MainWaitsAgents ~> agents_lock = Main)
    /\ (ServerWaitsInbox ~> inbox_lock = Server)
    /\ (ServerWaitsAgents ~> agents_lock = Server)

\* witness of C35: the server thread waits at _agents_lock for a health
\* request while the main thread, in cleanup_agents after an interrupted
\* spawn, holds it, and a post has gone through the inbox lock before
LockDisciplineWitness ==
    /\ pc = "cleanup_locked"
    /\ agents_lock = Main
    /\ srv_pc = "get_respond"
    /\ resp[2] = 200
    /\ Len(agents) = 1

----------------------------------------------------------------------------
\* The bootloader, src/seed/seed.py: birth()

\* longest reply of the reasoning service, in tokens
MaxReply == 4
\* src/seed/seed.py line 97: wait_for_kernel(max_retries=30, delay=2)
max_retries == 30

\* a reply is a sequence of tokens: the code fence (three backquotes in
\* the source, written with apostrophes here), a newline, a word that is no JSON, and JSON texts: three objects and a list
FENCE == "'''"
JsonTokens == {"{main}", "{app}", "{}", "[1]"}
ReplyTokens == {FENCE, "\n", "json"} \cup JsonTokens
Replies == UNION {[1..n -> ReplyTokens] : n \in 0..MaxReply}

\* the value json.loads gives for a JSON text
json_value(tok) ==
    IF tok = "{main}"
    THEN [type |-> "dict",
          value |-> [files |-> <<"main.py", "templates/index.html">>]]
    ELSE IF tok = "{app}"
    THEN [type |-> "dict", value |-> [files |-> <<"app.py">>, entry |-> "app.py"]]
    ELSE IF tok = "{}"
    THEN [type |-> "dict", value |-> <<>>]
    ELSE [type |-> "list", value |-> <<1>>]

\* json.loads(text): one JSON text, whitespace around it allowed
json_valid(text) == Len(strip(text)) = 1 /\ strip(text)[1] \in JsonTokens

\* text.split("\n", 1)[1]: what follows the first newline
HasNewline(text) == \E i \in DOMAIN text : text[i] = "\n"
after_first_line(text) ==
    LET i == CHOOSE k \in DOMAIN text :
                 text[k] = "\n" /\ \A m \in 1..(k - 1) : text[m] # "\n"
    IN  SubSeq(text, i + 1, Len(text))

\* text.rsplit(FENCE, 1)[0]: what precedes the last fence, or all of text
before_last_fence(text) ==
    IF \E i \in DOMAIN text : text[i] = FENCE
    THEN LET j == CHOOSE k \in DOMAIN text :
                      text[k] = FENCE /\ \A m \in (k + 1)..Len(text) : text[m] # FENCE
         IN  SubSeq(text, 1, j - 1)
    ELSE text

\* src/seed/seed.py lines 214-221: the reply stripped, a markdown wrapping
\* taken off, json.loads; JSONDecodeError is the one exception caught
birth_parse_of(reply) ==
    LET text == strip(reply)
        fenced == text # <<>> /\ text[1] = FENCE
    IN  IF fenced /\ ~HasNewline(text)
        THEN [kind |-> "raised", exc |-> "IndexError"]
        ELSE LET inner == IF fenced
                          THEN before_last_fence(after_first_line(text))
                          ELSE text
             IN  IF json_valid(inner)
                 THEN [kind |-> "parsed", value |-> json_value(strip(inner)[1])]
                 ELSE [kind |-> "caught", exc |-> "JSONDecodeError"]

\* `not response`: think returned None or an empty text
falsy(reply) == ~reply.str \/ reply.text = <<>>

\* the file written for path with the content of origin
Written(path, origin) == [path |-> path, content |-> origin]
\* os.path.exists(entry_path) in the brain directory, empty at birth
birth_exists(path) == \E i \in DOMAIN birth_files : birth_files[i].path = path

exceptBirth ==
    <<inboxVars, stateVars, clockVars, healthVars, agentVars, callVars, loopVars,
      lifeVars, subVars, lockVars, stack>>

\* src/seed/seed.py lines 97-110, 121-122: one try of wait_for_kernel, the
\* kernel answering 200 or not (i is gone once the function returns);
\* after max_retries tries, sys.exit(1)
wait_for_kernel ==
    /\ birth_pc = "wait"
    /\ IF birth_i < max_retries
       THEN \E online \in BOOLEAN :
              IF online
              THEN birth_pc' = "genesis" /\ birth_i' = 0
              ELSE birth_i' = birth_i + 1 /\ UNCHANGED birth_pc
       ELSE birth_pc' = "exit" /\ UNCHANGED birth_i
    /\ UNCHANGED <<birth_response, birth_result, birth_exc, birth_files,
                   birth_commits, birth_exec, exceptBirth>>

\* src/seed/seed.py lines 125-143: genesis is read, None when the request
\* fails; without it sys.exit(1); budget and remember are best-effort
birth_genesis ==
    /\ birth_pc = "genesis"
    /\ \E genesis \in {"none", "empty", "dict"} :
         birth_pc' = IF genesis = "dict" THEN "think" ELSE "exit"
    /\ UNCHANGED <<birth_i, birth_response, birth_result, birth_exc, birth_files,
                   birth_commits, birth_exec, exceptBirth>>

\* src/seed/seed.py lines 189-205: think(), None when the request fails or
\* the answer has no content
birth_think ==
    /\ birth_pc = "think"
    /\ \E reply \in {Str(r) : r \in Replies} \cup {PyNone} :
        /\ birth_response' = reply
        /\ birth_pc' = IF falsy(reply) THEN "fallback" ELSE "parse"
    /\ UNCHANGED <<birth_i, birth_result, birth_exc, birth_files, birth_commits,
                   birth_exec, exceptBirth>>

\* src/seed/seed.py lines 214-228
birth_parse ==
    /\ birth_pc = "parse"
    /\ LET p == birth_parse_of(birth_response.text)
       IN  IF p.kind = "parsed"
           THEN /\ birth_result' = p.value
                /\ birth_pc' = "build"
                /\ UNCHANGED birth_exc
           ELSE IF p.kind = "caught"
           THEN /\ birth_pc' = "fallback"
                /\ UNCHANGED <<birth_result, birth_exc>>
           ELSE /\ birth_pc' = "raised"
                /\ birth_exc' = p.exc
                /\ UNCHANGED birth_result
    /\ UNCHANGED <<birth_i, birth_response, birth_files, birth_commits, birth_exec,
                   exceptBirth>>

\* src/seed/seed.py lines 263-336: write_minimal_fallback()
write_minimal_fallback ==
    /\ birth_pc = "fallback"
    /\ birth_files' = Append(birth_files, Written("main.py", "fallback"))
    /\ birth_pc' = "commit"
    /\ UNCHANGED <<birth_i, birth_response, birth_result, birth_exc, birth_commits,
                   birth_exec, exceptBirth>>

\* src/seed/seed.py lines 231-251: result.get on the parsed value (a list
\* has no get), the packages installed, every file of the reply written
birth_build ==
    /\ birth_pc = "build"
    /\ IF birth_result.type # "dict"
       THEN /\ birth_pc' = "raised"
            /\ birth_exc' = "AttributeError"
            /\ UNCHANGED birth_files
       ELSE /\ birth_files' =
                birth_files \o
                [i \in DOMAIN Get(birth_result.value, "files", <<>>) |->
                    Written(Get(birth_result.value, "files", <<>>)[i], "reply")]
            /\ birth_pc' = "commit"
            /\ UNCHANGED birth_exc
    /\ UNCHANGED <<birth_i, birth_response, birth_result, birth_commits, birth_exec,
                   exceptBirth>>

\* src/seed/seed.py lines 209, 226, 254: the commit message of each path
commit_message ==
    IF falsy(birth_response) THEN "emergency fallback - LLM unavailable at birth"
    ELSE IF birth_result.type = "none"
    THEN "emergency fallback - could not parse birth response"
    ELSE "first breath"

\* src/seed/seed.py lines 73-75: commit(message), best-effort
birth_commit ==
    /\ birth_pc = "commit"
    /\ birth_commits' = Append(birth_commits, commit_message)
    /\ birth_pc' = "run_entry"
    /\ UNCHANGED <<birth_i, birth_response, birth_result, birth_exc, birth_files,
                   birth_exec, exceptBirth>>

\* src/seed/seed.py lines 210, 227, 257-258: the entry point handed to
\* run_entry: main.py after a fallback, else the reply's entry
birth_entry ==
    IF birth_result.type = "none" THEN "main.py"
    ELSE Get(birth_result.value, "entry", "main.py")

\* src/seed/seed.py lines 339-357: run_entry(entry, command): sys.exit(1)
\* without the entry file, else os.execvp replaces the process
run_entry ==
    /\ birth_pc = "run_entry"
    /\ IF birth_exists(birth_entry)
       THEN /\ birth_exec' = Str(<<"python", birth_entry>>)
            /\ birth_pc' = "exec"
       ELSE /\ birth_pc' = "exit"
            /\ UNCHANGED birth_exec
    /\ UNCHANGED <<birth_i, birth_response, birth_result, birth_exc, birth_files,
                   birth_commits, exceptBirth>>

NextBirth ==
    \/ wait_for_kernel
    \/ birth_genesis
    \/ birth_think
    \/ birth_parse
    \/ write_minimal_fallback
    \/ birth_build
    \/ birth_commit
    \/ run_entry

SpecBirth ==
    /\ InitInbox(0) /\ InitClock(0) /\ InitState(0) /\ InitHealth(0)
    /\ InitAgents(<<>>) /\ InitLoop(NoFiles, 0) /\ InitLife(0)
    /\ InitWorker("none", {"t1"}, {NoService})
    /\ InitBirth("wait")
    /\ stack = <<"off">>
    /\ [][NextBirth]_vars

\* no part of the reply is a JSON text
NoJsonIn(reply) ==
    \A i \in DOMAIN reply : \A j \in i..Len(reply) : ~json_valid(SubSeq(reply, i, j))

\* C36: Birth sequence.  (1) When the kernel never answers or genesis
\* cannot be read, the process exits and no file has been written.
\* (2) When think returns nothing, or a reply no part of which is valid
\* JSON, the next step is the fallback: main.py is written with the
\* minimal application, then a commit is requested, then main.py is
\* executed, and no file of the reply is ever written.  (3) A file of the
\* reply is written only once the reply has been parsed.  (4) The
\* hand-off follows a commit, and nothing happens after it.
BirthSequence ==
    /\ [][/\ (birth_pc \in {"wait", "genesis"} /\ birth_pc' \notin {"wait", "genesis", "think"})
               => (birth_pc' = "exit" /\ birth_files' = <<>>)
          /\ (birth_pc = "think" /\ falsy(birth_response'))
               => birth_pc' = "fallback"
          /\ (birth_pc = "parse" /\ NoJsonIn(birth_response.text))
               => birth_pc' = "fallback"
          /\ birth_pc = "fallback"
               => /\ birth_files' = <<Written("main.py", "fallback")>>
                  /\ birth_pc' = "commit"
          /\ (birth_pc = "commit" /\ birth_result.type = "none")
               => (Len(birth_commits') = 1 /\ birth_pc' = "run_entry")
          /\ (birth_pc = "run_entry" /\ birth_result.type = "none")
               => /\ birth_pc' = "exec"
                  /\ birth_exec' = Str(<<"python", "main.py">>)
                  /\ birth_files' = <<Written("main.py", "fallback")>>
          /\ (birth_pc' = "exec" /\ birth_pc # "exec")
               => (birth_commits # <<>> /\ birth_files' = birth_files)
          /\ birth_pc = "exec" => UNCHANGED bootVars
         ]_vars
    /\ [](\A i \in DOMAIN birth_files :
              birth_files[i].content = "reply" =>
                  birth_result.type = "dict")

\* C34: One post on every exit path.  A worker leaves subagent_runner
\* only by returning, unless the primary process terminates it, and the
\* step by which it returns sends exactly one POST to /inbox, none having
\* been sent before: after a failed think call and after 30 rounds the
\* body is the loop-limit text, which is not the text think_and_act
\* returns for an unreachable kernel, and after a final answer it is the
\* result text.
WorkerPostsOnEveryExit ==
    /\ [](sub_pc \in {"think", "exec", "returned", "terminated"})
    /\ [](sub_pc \in {"think", "exec", "terminated"} => sub_posts = <<>>)
    /\ [][sub_pc' = "returned" /\ sub_pc # "returned" =>
            /\ Len(sub_posts') = 1
            /\ sub_posts'[1].message # <<>>
            /\ (sub_response' = NoResponse \/ sub_i >= sub_max_loops) =>
                    /\ Len(sub_posts'[1].message) = 55
                    /\ SubSeq(sub_posts'[1].message, 1, 19) =
                            <<"H", "i", "t", " ", "t", "o", "o", "l", " ", "l", "o",
                              "o", "p", " ", "l", "i", "m", "i", "t">>
                    /\ sub_posts'[1].message # UNREACHABLE
            /\ (sub_response' # NoResponse /\ sub_i < sub_max_loops) =>
                    /\ "content" \in DOMAIN sub_response' =>
                          \/ sub_response'.content = <<>>
                          \/ sub_posts'[1].message[1] = sub_response'.content[1]
                    /\ Len(sub_posts'[1].message) # 55]_vars

\* a worker whose third think call failed, after two rounds of tool
\* calls, has returned with the loop-limit text posted
WorkerPostsOnEveryExitWitness ==
    /\ sub_pc = "returned"
    /\ sub_response = NoResponse
    /\ sub_i = 2
    /\ Len(sub_actions) = 4
    /\ Len(sub_posts) = 1
    /\ sub_posts[1].message = HIT_LIMIT

\* C19: Workers never outlive the supervisor.  Whenever the supervisor
\* process has ended itself (here: the restart tool's self-exit, the kernel
\* being unreachable), no worker is alive.
WorkersDieWithSupervisor ==
    pc = "exited" => \A w \in DOMAIN workers : ~is_alive(workers[w])

\* C20: Execute is total.  Whatever tool a call names and whatever its
\* arguments, executing it gives a text, the tool's output or an ERROR:
\* string, and the loop goes on to the next call or the next think call:
\* think_and_act does not raise.
ExecuteReturnsText ==
    [][(pc = "ta_exec" /\ pc' # "killed") =>
            /\ result'.str
            /\ ta_ret'.kind # "raised"
            /\ pc' \in {"ta_exec", "ta_think"}
            /\ Len(actions') = Len(actions) + 1
      ]_vars

\* C21: A failed think call ends the loop.  When the think call of a round
\* fails outright, think_and_act returns at once the unreachable sentinel
\* with exactly the actions recorded in the rounds before: that step
\* executes no tool, and afterwards the invocation makes no further think
\* call and executes no further tool.
ThinkFailureEndsLoop ==
    /\ [][(/\ pc = "ta_think" /\ ta_i < max_loops
            /\ think_calls >= service.rounds /\ service.then = "unreachable")
           => /\ ta_ret' = [kind |-> "returned",
                            content |-> <<"I", "couldn't reach the kernel", "to think.">>,
                            actions |-> actions]
              /\ pc' = stack[2]
              /\ think_calls' = think_calls + 1
              /\ actions' = actions /\ ta_messages' = ta_messages
              /\ files' = files /\ workers' = workers /\ agents' = agents
              /\ subprocesses' = subprocesses
         ]_vars
    /\ [][(ta_ret.kind = "returned" /\ service.then = "unreachable")
           => /\ think_calls' = think_calls /\ actions' = actions
              /\ files' = files /\ workers' = workers
              /\ subprocesses' = subprocesses
         ]_vars
    /\ []((ta_ret.kind = "returned" /\ service.then = "unreachable")
           => /\ think_calls = service.rounds + 1
              /\ Len(ta_ret.actions) = service.rounds * Len(service.tool_calls))

\* witness of C21: the think call of the third round failed after two
\* rounds of a write and a read, and the four actions are returned
ThinkFailureEndsLoopWitness ==
    /\ pc = "done"
    /\ ta_ret.kind = "returned"
    /\ ta_ret.content = UNREACHABLE
    /\ think_calls = 3
    /\ Len(ta_ret.actions) = 4
    /\ ta_ret.actions[1].tool = "write" /\ ta_ret.actions[4].tool = "read"

\* C22: The plan phase is read-only.  In a think_and_act call made with
\* the plan phase's tools (read and execute), a tool call naming any other
\* tool is not executed: it writes no file, requests no restart, starts no
\* worker, and is answered with an ERROR: text.
PlanToolsOnly ==
    [][(/\ pc = "ta_exec"
        /\ ta_tools = PLAN_TOOLS
        /\ CurrentCall.name \notin {"read", "execute"})
       => /\ files' = files
          /\ workers' = workers /\ agents' = agents
          /\ pc' \notin {"exited", "killed"}
          /\ result'.str /\ IsError(result'.text)
      ]_vars

\* C30: Order of a round.  In a round that does not end the loop the
\* assistant turn is appended first and the first tool call is taken up;
\* then each requested call, in the order given, appends exactly one
\* tool_result turn carrying its id and one action record, the turn's
\* is_error being true exactly when the result text starts with ERROR:,
\* and the next call, or after the last one the next round, follows.
RoundOrder ==
    [][/\ (pc = "ta_think" /\ pc' = "ta_exec") =>
            /\ ta_messages' = Append(ta_messages,
                    [role |-> "assistant", content |-> response'.content,
                     tool_calls |-> response'.tool_calls])
            /\ ta_k' = 1
            /\ actions' = actions
       /\ (pc = "ta_exec" /\ pc' # "killed") =>
            /\ tc' = response.tool_calls[ta_k]
            /\ result'.str
            /\ ta_messages' = Append(ta_messages,
                    [role |-> "tool_result", tool_call_id |-> tc'.id,
                     content |-> result'.text,
                     is_error |-> (result'.text # <<>> /\ Head(result'.text) = "ERROR:")])
            /\ Len(actions') = Len(actions) + 1
            /\ SubSeq(actions', 1, Len(actions)) = actions
            /\ actions'[Len(actions')].tool = tc'.name
            /\ actions'[Len(actions')].args = tc'.arguments
            /\ IF ta_k < Len(response.tool_calls)
               THEN pc' = "ta_exec" /\ ta_k' = ta_k + 1 /\ ta_i' = ta_i
               ELSE pc' = "ta_think" /\ ta_i' = ta_i + 1
      ]_vars

\* C31: Missing arguments.  A read, write or execute call that lacks one
\* of the tool's required arguments is answered with a text starting with
\* ERROR:, and executing it changes no file and starts no subprocess; the
\* text is _safe_tool's, not the content of a file.
MissingArgumentsRejected ==
    [][(/\ pc = "ta_exec"
        /\ CurrentCall.name \in {"read", "write", "execute"}
        /\ \E f \in (IF CurrentCall.name = "read" THEN {"path"}
                       ELSE IF CurrentCall.name = "write" THEN {"path", "content"}
                       ELSE {"command"}) : f \notin DOMAIN CurrentCall.arguments)
       => /\ result'.str
          /\ result'.text # <<>> /\ Head(result'.text) = "ERROR:"
          /\ result'.text[2] = "tool" /\ result'.text[3] = CurrentCall.name
          /\ files' = files
          /\ subprocesses' = subprocesses
          /\ ta_messages'[Len(ta_messages')].is_error
      ]_vars

\* a write call without content has been answered with an error, main.py
\* still missing, and the loop has ended
MissingArgumentsRejectedWitness ==
    /\ pc = "done"
    /\ ta_ret.kind = "returned"
    /\ Len(ta_ret.actions) = 1
    /\ ta_ret.actions[1].tool = "write"
    /\ "content" \notin DOMAIN ta_ret.actions[1].args
    /\ ta_ret.actions[1].result[1] = "ERROR:"
    /\ files = NoFiles

\* C32: done wins over tool calls.  A response that carries tool calls
\* and flags done, or has no done field, ends think_and_act at once: it
\* returns the response's content with the actions recorded so far, and
\* none of the response's tool calls is executed: no file changes, no
\* subprocess starts, no task is spawned, no turn is appended.
DoneEndsLoop ==
    [][(/\ pc = "ta_think"
        /\ response' # NoResponse
        /\ "tool_calls" \in DOMAIN response' /\ response'.tool_calls # <<>>
        /\ ("done" \in DOMAIN response' => response'.done))
       => /\ ta_ret' = [kind |-> "returned", content |-> response'.content,
                        actions |-> actions]
          /\ pc' = "done"
          /\ actions' = actions /\ ta_messages' = ta_messages
          /\ files' = files /\ subprocesses' = subprocesses
          /\ agents' = agents /\ workers' = workers
      ]_vars

\* after two rounds of a write and a read, a response without a done field
\* that asks for them again has ended the loop with the four actions of
\* the two rounds
DoneEndsLoopWitness ==
    /\ pc = "done"
    /\ "done" \notin DOMAIN response
    /\ "tool_calls" \in DOMAIN response /\ Len(response.tool_calls) = 2
    /\ think_calls = 3
    /\ ta_ret.kind = "returned"
    /\ Len(ta_ret.actions) = 4
    /\ Len(ta_messages) = 7

\* C2: Loop boundedness.  Against a reasoning service that answers every
\* think call with tool calls and done = false, a think_and_act call that
\* has ended has made at most max_loops think calls and has returned the
\* loop-limit sentinel text together with the actions taken.
LoopBoundedness ==
    (/\ service.rounds = Forever
     /\ service.tool_calls # <<>>
     /\ ta_ret.kind \in {"returned", "raised"}) =>
        /\ ta_ret.kind = "returned"
        /\ ta_ret.content = LOOP_LIMIT
        /\ ta_ret.actions = actions
        /\ think_calls <= max_loops

\* C12: Denylist enforcement.  An execute tool call whose command contains
\* "seed.py" or "seed .py" gets a result that is a text starting with ERROR:,
\* and no shell command is started for it.
DenylistEnforced ==
    [][(/\ pc = "ta_exec"
        /\ CurrentCall.name = "execute"
        /\ "command" \in DOMAIN CurrentCall.arguments
        /\ \E b \in DOMAIN BLOCKED_COMMANDS :
                Contains(CurrentCall.arguments["command"], BLOCKED_COMMANDS[b]))
       => /\ result'.str
          /\ IsError(result'.text)
          /\ subprocesses' = subprocesses
          /\ Len(actions') = Len(actions) + 1
      ]_vars

\* an execute call naming "seed .py" has been answered with an error, no
\* shell command having been started
DenylistEnforcedWitness ==
    /\ tc.name = "execute"
    /\ "command" \in DOMAIN tc.arguments
    /\ Contains(tc.arguments["command"], BLOCKED_COMMANDS[2])
    /\ result.str
    /\ IsError(result.text)
    /\ actions # <<>>
    /\ subprocesses = 0

============================================================================
